---- MODULE Spec2Model ----
(***************************************************************************)
(* Verification model of segmo (eyalfishler/segmo).                        *)
(*                                                                         *)
(* Part F: AdaptiveQualityController (src/src/adaptive.ts).                *)
(* Part D/G: the worker path of SegmentationProcessor.processFrame and     *)
(*           ModelWorkerClient (src/src/processor.ts, model-worker.ts).    *)
(*                                                                         *)
(* Times are integers in milliseconds.  Objects are records whose fields   *)
(* keep the names of the class fields.                                     *)
(***************************************************************************)
EXTENDS Integers, Sequences, FiniteSets, TLC

VARIABLES
    adaptive,       \* the AdaptiveQualityController object (+ trace of the last call)
    now,            \* performance.now(), a non-decreasing clock
    processor,      \* the SegmentationProcessor fields of the worker path
    frameClock,     \* timestamp of the last frame handed to processFrame
    bitmapPending,  \* requestSegment calls whose createImageBitmap has not settled
    toWorker,       \* 'segment' messages posted to the worker, not yet handled
    fromWorker,     \* 'mask' messages posted by the worker, not yet delivered
    pipeline,       \* the PostProcessingPipeline object (+ trace of the last call)
    framer,         \* the AutoFramer object
    boot,           \* the progress of SegmentationProcessor.init() and the objects it owns
    adapters,       \* the in-thread adapter and the worker, called with the same inputs
    upload,         \* the mask process() is called with and the data it uploads
    twins,          \* two processors driven by the same calls, diagnostics 'off' and 'summary'
    interp,         \* the motion vector and interpolation counter of a run of interpolated frames, and the shift
    buffers,        \* the adapter's mask buffers, shared with process() on the in-thread path
    diagnosed,      \* one processor with diagnostics, through level changes, re-init and timer ticks
    main            \* the SegmentationProcessor fields of the in-thread path and its
                    \* SegmentationModel (+ trace of the last processFrame call)

adaptiveVars == <<adaptive, now>>
workerVars   == <<processor, frameClock, bitmapPending, toWorker, fromWorker>>
pipelineVars == <<pipeline>>
framerVars   == <<framer>>
mainVars     == <<main>>
bootVars     == <<boot>>
diagnosedVars == <<diagnosed>>
bufferVars   == <<buffers>>
interpVars   == <<interp>>
twinVars     == <<twins>>
uploadVars   == <<upload>>
adapterVars  == <<adapters>>

\* what a specification of one part leaves alone
notAdaptive == <<workerVars, pipelineVars, framerVars, mainVars, bootVars, adapterVars, uploadVars, twinVars, interpVars, bufferVars, diagnosedVars>>
notWorker   == <<adaptiveVars, pipelineVars, framerVars, mainVars, bootVars, adapterVars, uploadVars, twinVars, interpVars, bufferVars, diagnosedVars>>
notPipeline == <<adaptiveVars, workerVars, framerVars, mainVars, bootVars, adapterVars, uploadVars, twinVars, interpVars, bufferVars, diagnosedVars>>
notFramer   == <<adaptiveVars, workerVars, pipelineVars, mainVars, bootVars, adapterVars, uploadVars, twinVars, interpVars, bufferVars, diagnosedVars>>
notMain     == <<adaptiveVars, workerVars, bootVars, adapterVars, uploadVars, twinVars, interpVars, bufferVars, diagnosedVars>>
notLifecycle == <<workerVars, adapterVars, uploadVars, twinVars, interpVars, bufferVars, diagnosedVars>>
notUpload   == <<adaptiveVars, workerVars, pipelineVars, framerVars, mainVars, bootVars, adapterVars, twinVars, interpVars, bufferVars, diagnosedVars>>
notAdapters == <<adaptiveVars, workerVars, pipelineVars, framerVars, mainVars, bootVars, uploadVars, twinVars, interpVars, bufferVars, diagnosedVars>>
notTwins    == <<adaptiveVars, workerVars, pipelineVars, framerVars, mainVars, bootVars, adapterVars, uploadVars, interpVars, bufferVars, diagnosedVars>>
notInterp   == <<adaptiveVars, workerVars, pipelineVars, framerVars, mainVars, bootVars, adapterVars, uploadVars, twinVars, bufferVars, diagnosedVars>>
notBuffers  == <<adaptiveVars, workerVars, pipelineVars, framerVars, mainVars, bootVars, adapterVars, uploadVars, twinVars, interpVars, diagnosedVars>>
notDiagnosed == <<adaptiveVars, workerVars, pipelineVars, framerVars, mainVars, bootVars, adapterVars, uploadVars, twinVars, interpVars, bufferVars>>

(***************************************************************************)
(* Bounds of the model.                                                    *)
(***************************************************************************)
WindowSize  == 3     \* config.windowSize (default 30), kept small
MaxNow      == 1000  \* the clock is explored up to MaxNow ms
MaxAppliers == 1     \* at most MaxAppliers callbacks are registered with onApply

\* Inputs
FrameTimeValues == {5, 35, 50}          \* fast, over target, critical
ClockSteps      == {0, 1000}            \* time elapsed before a call: below the clock's resolution, or a cooldown
TierArgs        == {-1, 2, 5}           \* arguments of setTier: below, inside, above the table
BenchmarkValues == {5, 20, 25, 35, 50}  \* one per calibration band

(***************************************************************************)
(* Program constants.                                                      *)
(***************************************************************************)
NumTiers            == 5     \* QUALITY_TIERS.length
TargetFrameTimeMs   == 28
CriticalFrameTimeMs == 40
UpgradeThreshold    == 5
DowngradeThreshold  == 2
CooldownMs          == 1000
CriticalRun         == 3

\* reportFrame is explored until an upgrade can happen: UpgradeThreshold windows
\* after construction or reset()
MaxFrames == UpgradeThreshold * WindowSize

\* QUALITY_TIERS: the fields the model uses; feather radius in 1/10 px, range
\* sigma and the two temporal rates in 1/100
QUALITY_TIERS ==
    << [tier |-> 0, modelFps |-> 30, modelWidth |-> 256, lightWrap |-> TRUE,
        featherRadius |-> 40, rangeSigma |-> 8, blurRadius |-> 12,
        appearRate |-> 70, disappearRate |-> 30],
       [tier |-> 1, modelFps |-> 24, modelWidth |-> 256, lightWrap |-> TRUE,
        featherRadius |-> 30, rangeSigma |-> 10, blurRadius |-> 12,
        appearRate |-> 75, disappearRate |-> 35],
       [tier |-> 2, modelFps |-> 12, modelWidth |-> 256, lightWrap |-> TRUE,
        featherRadius |-> 25, rangeSigma |-> 12, blurRadius |-> 10,
        appearRate |-> 80, disappearRate |-> 40],
       [tier |-> 3, modelFps |-> 10, modelWidth |-> 160, lightWrap |-> FALSE,
        featherRadius |-> 20, rangeSigma |-> 15, blurRadius |-> 8,
        appearRate |-> 85, disappearRate |-> 45],
       [tier |-> 4, modelFps |-> 8,  modelWidth |-> 160, lightWrap |-> FALSE,
        featherRadius |-> 15, rangeSigma |-> 20, blurRadius |-> 6,
        appearRate |-> 90, disappearRate |-> 50] >>

Min(a, b) == IF a < b THEN a ELSE b
Max(a, b) == IF a > b THEN a ELSE b

(***************************************************************************)
(* AdaptiveQualityController                                               *)
(***************************************************************************)

\* The object after its constructor.  path, called and applied record what
\* the last call did (branch taken, private method called, tiers handed to the
\* appliers); uniform is the frame time reported on every frame so far (0: no
\* frame yet, -1: the frame times differ) and tier0 the tier the run started
\* with.  The code reads none of these.
AdaptiveInit ==
    [ currentTier            |-> 1,
      frameTimes             |-> [i \in 1..WindowSize |-> 0],
      windowIndex            |-> 0,
      consecutiveGoodWindows |-> 0,
      consecutiveBadWindows  |-> 0,
      criticalFrameCount     |-> 0,
      totalFrames            |-> 0,
      lastAdjustmentTime     |-> 0,
      locked                 |-> FALSE,
      applyCallbacks         |-> 0,
      path                   |-> "none",
      called                 |-> "none",
      applied                |-> << >>,
      uniform                |-> 0,
      tier0                  |-> 1 ]

\* Start of a public call: clear the trace of the previous call.
Enter(s) ==
    [s EXCEPT !.path = "none", !.called = "none", !.applied = << >>]

getCurrentLevel(s) == QUALITY_TIERS[s.currentTier + 1]

\* for (const cb of this.applyCallbacks) cb(level)
applyCurrentLevel(s) ==
    [s EXCEPT !.applied = @ \o [i \in 1..s.applyCallbacks |->
                                   [cb |-> i, tier |-> getCurrentLevel(s).tier]]]

\* variant: the floor test is off by one, the controller stops at tier 'low'
downgrade_floorOffByOne(s, t) ==
    LET s1 == [s EXCEPT !.called = "downgrade"] IN
    IF s1.currentTier >= NumTiers - 2
    THEN s1
    ELSE applyCurrentLevel([s1 EXCEPT !.currentTier = @ + 1,
                                      !.lastAdjustmentTime = t])

downgrade(s, t) ==
    LET s1 == [s EXCEPT !.called = "downgrade"] IN
    IF s1.currentTier >= NumTiers - 1
    THEN s1
    ELSE applyCurrentLevel([s1 EXCEPT !.currentTier = @ + 1,
                                      !.lastAdjustmentTime = t])

\* variant: the upgrade forgets to call applyCurrentLevel
upgrade_noApply(s, t) ==
    LET s1 == [s EXCEPT !.called = "upgrade"] IN
    IF s1.currentTier <= 0
    THEN s1
    ELSE [s1 EXCEPT !.currentTier = @ - 1,
                    !.lastAdjustmentTime = t,
                    !.consecutiveGoodWindows = 0]

upgrade(s, t) ==
    LET s1 == [s EXCEPT !.called = "upgrade"] IN
    IF s1.currentTier <= 0
    THEN s1
    ELSE applyCurrentLevel([s1 EXCEPT !.currentTier = @ - 1,
                                      !.lastAdjustmentTime = t,
                                      !.consecutiveGoodWindows = 0])

RECURSIVE SumFirst(_, _)
SumFirst(f, n) == IF n = 0 THEN 0 ELSE f[n] + SumFirst(f, n - 1)

\* getAverageFrameTime returns sum / count; the model keeps the pair.
getAverageFrameTime(s) ==
    LET count == Min(s.totalFrames, WindowSize) IN
    [sum |-> SumFirst(s.frameTimes, count), count |-> count]

\* [...frameTimes].sort((a, b) => a - b)[k]
SortedAt(f, k) ==
    CHOOSE v \in {f[i] : i \in DOMAIN f} :
        /\ Cardinality({i \in DOMAIN f : f[i] < v}) <= k
        /\ k < Cardinality({i \in DOMAIN f : f[i] <= v})

\* Math.floor(sorted.length * 0.95)
P95Index(n) == (n * 95) \div 100

\* avg > target  and  avg < target * 0.6, on the pair sum/count
AvgOverTarget(a)  == a.count > 0 /\ a.sum > TargetFrameTimeMs * a.count
AvgWellUnder(a)   == IF a.count = 0 THEN TRUE
                     ELSE 10 * a.sum < 6 * TargetFrameTimeMs * a.count

\* variant: no cooldown test
evaluateWindow_noCooldown(s, t) ==
    IF s.locked THEN [s EXCEPT !.path = "locked"]
    ELSE
      LET avg == getAverageFrameTime(s)
          p95 == SortedAt(s.frameTimes, P95Index(WindowSize))
      IN
      IF AvgOverTarget(avg) \/ p95 > CriticalFrameTimeMs
      THEN
        LET s1 == [s EXCEPT !.consecutiveBadWindows = @ + 1,
                            !.consecutiveGoodWindows = 0,
                            !.path = "bad"]
        IN IF s1.consecutiveBadWindows >= DowngradeThreshold
           THEN [downgrade(s1, t) EXCEPT !.consecutiveBadWindows = 0]
           ELSE s1
      ELSE IF AvgWellUnder(avg)
      THEN
        LET s1 == [s EXCEPT !.consecutiveGoodWindows = @ + 1,
                            !.consecutiveBadWindows = 0,
                            !.path = "good"]
        IN IF s1.consecutiveGoodWindows >= UpgradeThreshold
           THEN [upgrade(s1, t) EXCEPT !.consecutiveGoodWindows = 0]
           ELSE s1
      ELSE [s EXCEPT !.consecutiveGoodWindows = 0,
                     !.consecutiveBadWindows = 0,
                     !.path = "stable"]

\* variant: the downgrade needs one bad window more than downgradeThreshold
evaluateWindow_lateDowngrade(s, t) ==
    IF s.locked THEN [s EXCEPT !.path = "locked"]
    ELSE IF t - s.lastAdjustmentTime < CooldownMs THEN [s EXCEPT !.path = "cooldown"]
    ELSE
      LET avg == getAverageFrameTime(s)
          p95 == SortedAt(s.frameTimes, P95Index(WindowSize))
      IN
      IF AvgOverTarget(avg) \/ p95 > CriticalFrameTimeMs
      THEN
        LET s1 == [s EXCEPT !.consecutiveBadWindows = @ + 1,
                            !.consecutiveGoodWindows = 0,
                            !.path = "bad"]
        IN IF s1.consecutiveBadWindows > DowngradeThreshold
           THEN [downgrade(s1, t) EXCEPT !.consecutiveBadWindows = 0]
           ELSE s1
      ELSE IF AvgWellUnder(avg)
      THEN
        LET s1 == [s EXCEPT !.consecutiveGoodWindows = @ + 1,
                            !.consecutiveBadWindows = 0,
                            !.path = "good"]
        IN IF s1.consecutiveGoodWindows >= UpgradeThreshold
           THEN [upgrade(s1, t) EXCEPT !.consecutiveGoodWindows = 0]
           ELSE s1
      ELSE [s EXCEPT !.consecutiveGoodWindows = 0,
                     !.consecutiveBadWindows = 0,
                     !.path = "stable"]

\* variant: a stable window does not clear the good-window counter
evaluateWindow_keepGood(s, t) ==
    IF s.locked THEN [s EXCEPT !.path = "locked"]
    ELSE IF t - s.lastAdjustmentTime < CooldownMs THEN [s EXCEPT !.path = "cooldown"]
    ELSE
      LET avg == getAverageFrameTime(s)
          p95 == SortedAt(s.frameTimes, P95Index(WindowSize))
      IN
      IF AvgOverTarget(avg) \/ p95 > CriticalFrameTimeMs
      THEN
        LET s1 == [s EXCEPT !.consecutiveBadWindows = @ + 1,
                            !.consecutiveGoodWindows = 0,
                            !.path = "bad"]
        IN IF s1.consecutiveBadWindows >= DowngradeThreshold
           THEN [downgrade(s1, t) EXCEPT !.consecutiveBadWindows = 0]
           ELSE s1
      ELSE IF AvgWellUnder(avg)
      THEN
        LET s1 == [s EXCEPT !.consecutiveGoodWindows = @ + 1,
                            !.consecutiveBadWindows = 0,
                            !.path = "good"]
        IN IF s1.consecutiveGoodWindows >= UpgradeThreshold
           THEN [upgrade(s1, t) EXCEPT !.consecutiveGoodWindows = 0]
           ELSE s1
      ELSE [s EXCEPT !.consecutiveBadWindows = 0,
                     !.path = "stable"]

evaluateWindow(s, t) ==
    IF s.locked THEN [s EXCEPT !.path = "locked"]
    ELSE IF t - s.lastAdjustmentTime < CooldownMs THEN [s EXCEPT !.path = "cooldown"]
    ELSE
      LET avg == getAverageFrameTime(s)
          p95 == SortedAt(s.frameTimes, P95Index(WindowSize))
      IN
      IF AvgOverTarget(avg) \/ p95 > CriticalFrameTimeMs
      THEN
        LET s1 == [s EXCEPT !.consecutiveBadWindows = @ + 1,
                            !.consecutiveGoodWindows = 0,
                            !.path = "bad"]
        IN IF s1.consecutiveBadWindows >= DowngradeThreshold
           THEN [downgrade(s1, t) EXCEPT !.consecutiveBadWindows = 0]
           ELSE s1
      ELSE IF AvgWellUnder(avg)
      THEN
        LET s1 == [s EXCEPT !.consecutiveGoodWindows = @ + 1,
                            !.consecutiveBadWindows = 0,
                            !.path = "good"]
        IN IF s1.consecutiveGoodWindows >= UpgradeThreshold
           THEN [upgrade(s1, t) EXCEPT !.consecutiveGoodWindows = 0]
           ELSE s1
      ELSE [s EXCEPT !.consecutiveGoodWindows = 0,
                     !.consecutiveBadWindows = 0,
                     !.path = "stable"]

atWindowBoundary(s, t) ==
    IF s.totalFrames % WindowSize = 0 THEN evaluateWindow(s, t) ELSE s

\* variant: a frame at or below the threshold does not clear the critical counter
reportFrame_noCounterReset(s, frameTimeMs, t) ==
    LET s1 == [Enter(s) EXCEPT
                  !.uniform = IF @ \in {0, frameTimeMs} THEN frameTimeMs ELSE -1,
                  !.frameTimes[s.windowIndex + 1] = frameTimeMs,
                  !.windowIndex = (s.windowIndex + 1) % WindowSize,
                  !.totalFrames = @ + 1]
    IN
    IF frameTimeMs > CriticalFrameTimeMs
    THEN LET s2 == [s1 EXCEPT !.criticalFrameCount = @ + 1] IN
         IF s2.criticalFrameCount >= CriticalRun
         THEN [downgrade(s2, t) EXCEPT !.criticalFrameCount = 0,
                                       !.path = "critical"]
         ELSE atWindowBoundary(s2, t)
    ELSE atWindowBoundary(s1, t)

\* variant: the immediate downgrade on critical frames is missing
reportFrame_noCritical(s, frameTimeMs, t) ==
    LET s1 == [Enter(s) EXCEPT
                  !.uniform = IF @ \in {0, frameTimeMs} THEN frameTimeMs ELSE -1,
                  !.frameTimes[s.windowIndex + 1] = frameTimeMs,
                  !.windowIndex = (s.windowIndex + 1) % WindowSize,
                  !.totalFrames = @ + 1]
    IN
    IF frameTimeMs > CriticalFrameTimeMs
    THEN LET s2 == [s1 EXCEPT !.criticalFrameCount = @ + 1] IN
         IF FALSE
         THEN [downgrade(s2, t) EXCEPT !.criticalFrameCount = 0,
                                       !.path = "critical"]
         ELSE atWindowBoundary(s2, t)
    ELSE atWindowBoundary([s1 EXCEPT !.criticalFrameCount = 0], t)

reportFrame(s, frameTimeMs, t) ==
    LET s1 == [Enter(s) EXCEPT
                  !.uniform = IF @ \in {0, frameTimeMs} THEN frameTimeMs ELSE -1,
                  !.frameTimes[s.windowIndex + 1] = frameTimeMs,
                  !.windowIndex = (s.windowIndex + 1) % WindowSize,
                  !.totalFrames = @ + 1]
    IN
    IF frameTimeMs > CriticalFrameTimeMs
    THEN LET s2 == [s1 EXCEPT !.criticalFrameCount = @ + 1] IN
         IF s2.criticalFrameCount >= CriticalRun
         THEN [downgrade(s2, t) EXCEPT !.criticalFrameCount = 0,
                                       !.path = "critical"]
         ELSE atWindowBoundary(s2, t)
    ELSE atWindowBoundary([s1 EXCEPT !.criticalFrameCount = 0], t)

lock(s)   == [Enter(s) EXCEPT !.locked = TRUE]
unlock(s) == [Enter(s) EXCEPT !.locked = FALSE]

setTier(s, tier) ==
    LET s1 == [Enter(s) EXCEPT !.path = "setTier"]
        clamped == Max(0, Min(tier, NumTiers - 1))
    IN IF clamped # s1.currentTier
       THEN applyCurrentLevel([s1 EXCEPT !.currentTier = clamped])
       ELSE s1

reset(s) ==
    [Enter(s) EXCEPT
        !.frameTimes = [i \in 1..WindowSize |-> 0],
        !.windowIndex = 0,
        !.consecutiveGoodWindows = 0,
        !.consecutiveBadWindows = 0,
        !.criticalFrameCount = 0,
        !.totalFrames = 0]

\* sample < target*0.5, < target*0.8, < target, < target*1.5
calibrateFromBenchmark(s, sampleFrameTimeMs) ==
    LET s1 == Enter(s)
        tier == IF 10 * sampleFrameTimeMs < 5 * TargetFrameTimeMs THEN 0
                ELSE IF 10 * sampleFrameTimeMs < 8 * TargetFrameTimeMs THEN 1
                ELSE IF sampleFrameTimeMs < TargetFrameTimeMs THEN 2
                ELSE IF 10 * sampleFrameTimeMs < 15 * TargetFrameTimeMs THEN 3
                ELSE 4
    IN applyCurrentLevel([s1 EXCEPT !.currentTier = tier])

onApply(s) == [Enter(s) EXCEPT !.applyCallbacks = @ + 1]

(***************************************************************************)
(* Actions of the controller.  Each call happens d ms after the previous   *)
(* one; performance.now() returns the same value throughout one call.      *)
(***************************************************************************)
ReportFrameWith(values) ==
    \E frameTimeMs \in values, d \in ClockSteps :
        /\ adaptive.totalFrames < MaxFrames
        /\ now + d <= MaxNow
        /\ now' = now + d
        /\ adaptive' = reportFrame(adaptive, frameTimeMs, now + d)

ReportFrame == ReportFrameWith(FrameTimeValues)

\* frames well under budget or critical
ExtremeFrameValues == {5, 50}
ReportExtremeFrame == ReportFrameWith(ExtremeFrameValues)

\* every frame takes 100 ms
SlowFrameValues == {100}
ReportSlowFrame == ReportFrameWith(SlowFrameValues)

Lock ==
    /\ ~adaptive.locked
    /\ adaptive' = lock(adaptive)
    /\ UNCHANGED now

Unlock ==
    /\ adaptive.locked
    /\ adaptive' = unlock(adaptive)
    /\ UNCHANGED now

SetTier ==
    \E tier \in TierArgs :
        /\ adaptive' = setTier(adaptive, tier)
        /\ UNCHANGED now

Reset ==
    /\ adaptive.totalFrames > 0
    /\ adaptive' = reset(adaptive)
    /\ UNCHANGED now

CalibrateFromBenchmark ==
    \E sample \in BenchmarkValues :
        /\ adaptive' = calibrateFromBenchmark(adaptive, sample)
        /\ UNCHANGED now

OnApply ==
    /\ adaptive.applyCallbacks < MaxAppliers
    /\ adaptive.totalFrames = 0
    /\ adaptive' = onApply(adaptive)
    /\ UNCHANGED now

(***************************************************************************)
(* Worker path: SegmentationProcessor.processFrame with a ModelWorkerClient *)
(* (processor.ts 590-742, model-worker.ts).  The processor is the one       *)
(* init() leaves with useWorker: true and a ready worker; it is built with  *)
(* adaptive: false, so processFrame reports to no controller.               *)
(***************************************************************************)
MaxRequests   == 3             \* processFrame is explored until MaxRequests requests were sent
FrameSteps    == {16, 50}      \* ms between two frames
ModelFpsOpts  == {10, 24}      \* modelFps of QUALITY_PRESETS.low and .high
MotionValues  == {0, 200}      \* |mask velocity| of a mask, in 1/1000 of the frame
NoMask        == [id |-> 0, motion |-> 0]   \* workerMask = null

\* Fields after init(); rendered, requested, consumed and overwritten record
\* what processFrame and the onMaskReady callback did, the code does not read them.
ProcessorInit ==
    { [ workerHasFreshMask |-> FALSE,
        workerMask         |-> NoMask,
        lastModelTime      |-> 0,
        modelInterval      |-> [num |-> 1000, den |-> fps],
        motionMag          |-> 0,
        interpFrameCount   |-> 0,
        requestsSent       |-> 0,
        rendered           |-> "none",
        requested          |-> FALSE,
        consumed           |-> << >>,
        overwritten        |-> {} ] : fps \in ModelFpsOpts }

shouldRunModel_noFloor(p, timestamp) ==
    LET speedup1000 == Min(4000, 1000 + p.motionMag * 20)
        dt          == timestamp - p.lastModelTime
    IN dt * speedup1000 * p.modelInterval.den >= p.modelInterval.num * 1000

\* timestamp - lastModelTime >= max(16, modelInterval / min(4, 1 + motionMag * 20))
\* with motionMag in 1/1000 and modelInterval = num / den
shouldRunModel(p, timestamp) ==
    LET speedup1000 == Min(4000, 1000 + p.motionMag * 20)
        dt          == timestamp - p.lastModelTime
    IN /\ dt >= 16
       /\ dt * speedup1000 * p.modelInterval.den >= p.modelInterval.num * 1000

\* ModelWorkerClient.requestSegment: the worker is ready, createImageBitmap is started
requestSegment(pending, id, timestamp) ==
    Append(pending, [id |-> id, timestamp |-> timestamp])

\* the worker branch of processFrame, without the request
renderWorkerFrame(p) ==
    IF p.workerHasFreshMask /\ p.workerMask # NoMask
    THEN [p EXCEPT !.workerHasFreshMask = FALSE,
                   !.motionMag = p.workerMask.motion,
                   !.interpFrameCount = 0,
                   !.rendered = "process",
                   !.consumed = Append(@, p.workerMask.id)]
    ELSE [p EXCEPT !.interpFrameCount = @ + 1,
                   !.rendered = "interpolated"]

ProcessFrame ==
    \E step \in FrameSteps :
        LET timestamp == frameClock + step
            run       == shouldRunModel(processor, timestamp)
            p1        == renderWorkerFrame(processor)
        IN /\ processor.requestsSent < MaxRequests
           /\ frameClock' = timestamp
           /\ IF run
              THEN /\ bitmapPending' = requestSegment(bitmapPending,
                                            processor.requestsSent + 1, timestamp)
                   /\ processor' = [p1 EXCEPT !.lastModelTime = timestamp,
                                              !.requestsSent = @ + 1,
                                              !.requested = TRUE]
              ELSE /\ bitmapPending' = bitmapPending
                   /\ processor' = [p1 EXCEPT !.requested = FALSE]
           /\ UNCHANGED <<toWorker, fromWorker>>

\* createImageBitmap(frame).then(bitmap => worker.postMessage({type: 'segment', ...}))
BitmapReady ==
    /\ bitmapPending # << >>
    /\ toWorker' = Append(toWorker, Head(bitmapPending))
    /\ bitmapPending' = Tail(bitmapPending)
    /\ UNCHANGED <<processor, frameClock, fromWorker>>

\* .catch(() => {}): the frame capture failed, the request is skipped
BitmapFailed ==
    /\ bitmapPending # << >>
    /\ bitmapPending' = Tail(bitmapPending)
    /\ UNCHANGED <<processor, frameClock, toWorker, fromWorker>>

\* worker: segment(bitmap, timestamp, crop); posts a mask, or returns without
\* a reply when segmentForVideo throws or returns no confidence mask
WorkerSegment ==
    /\ toWorker # << >>
    /\ toWorker' = Tail(toWorker)
    /\ \/ \E m \in MotionValues :
             fromWorker' = Append(fromWorker, [id |-> Head(toWorker).id, motion |-> m])
       \/ fromWorker' = fromWorker
    /\ UNCHANGED <<processor, frameClock, bitmapPending>>

\* the callback registered with onMaskReady
onMaskReady(p, result) ==
    [p EXCEPT !.workerMask = result,
              !.workerHasFreshMask = TRUE,
              !.overwritten = IF p.workerHasFreshMask
                              THEN @ \cup {p.workerMask.id} ELSE @]

\* worker.onmessage on the main thread, for a 'mask' message
OnWorkerMessage ==
    /\ fromWorker # << >>
    /\ processor' = onMaskReady(processor, Head(fromWorker))
    /\ fromWorker' = Tail(fromWorker)
    /\ UNCHANGED <<frameClock, bitmapPending, toWorker>>

(***************************************************************************)
(* PostProcessingPipeline (src/src/pipeline.ts).  A dispatch is recorded as *)
(* the sequence of draw calls it issues: the program, the render target and *)
(* the textures bound as inputs.  The contents of the mask framebuffers are *)
(* terms: cleared, the temporal output   of the n-th process() call, or a     *)
(* shifted copy of such a term.  Rates are in 1/100, shifts in 1/10000.     *)
(***************************************************************************)
MaxDispatches == 3       \* process/processInterpolated calls explored per pipeline

\* a null reference
Null == [null |-> TRUE]

\* maskShift arguments: omitted, zero, at the 0.0001 threshold, horizontal, vertical
ShiftInputs ==
    { Null,
      [dx |-> 0, dy |-> 0], [dx |-> 1, dy |-> -1],
      [dx |-> 300, dy |-> 0], [dx |-> 0, dy |-> -1200] }

\* rect arguments of setCropRect, in 1/1000 of the frame
CropRectInputs == { Null, [x |-> 100, y |-> 50, w |-> 833, h |-> 833] }

\* QUALITY_PRESETS of the processor: the options init() builds the pipeline
\* from; feather radius in 1/10 px, range sigma and the rates in 1/100
QUALITY_PRESETS ==
    [ low    |-> [appearRate |-> 85, disappearRate |-> 45, featherRadius |-> 20,
                  rangeSigma |-> 15, lightWrap |-> FALSE, morphology |-> FALSE,
                  blurRadius |-> 8, modelFps |-> 10],
      medium |-> [appearRate |-> 80, disappearRate |-> 40, featherRadius |-> 25,
                  rangeSigma |-> 12, lightWrap |-> TRUE, morphology |-> TRUE,
                  blurRadius |-> 10, modelFps |-> 12],
      high   |-> [appearRate |-> 75, disappearRate |-> 35, featherRadius |-> 30,
                  rangeSigma |-> 10, lightWrap |-> TRUE, morphology |-> TRUE,
                  blurRadius |-> 12, modelFps |-> 24],
      ultra  |-> [appearRate |-> 70, disappearRate |-> 35, featherRadius |-> 15,
                  rangeSigma |-> 8, lightWrap |-> TRUE, morphology |-> TRUE,
                  blurRadius |-> 12, modelFps |-> 30] ]

\* the blurRadius option of the processor, 12 unless the caller sets it
DefaultBlurRadius == 12

\* the options init() hands to the pipeline constructor for a preset:
\* blurRadius: this.opts.blurRadius || preset.blurRadius
presetOptions(preset, mode) ==
    [ lightWrap |-> preset.lightWrap, morphology |-> preset.morphology,
      appearRate |-> preset.appearRate, disappearRate |-> preset.disappearRate,
      featherRadius |-> preset.featherRadius, rangeSigma |-> preset.rangeSigma,
      blurRadius |-> IF DefaultBlurRadius # 0 THEN DefaultBlurRadius ELSE preset.blurRadius,
      backgroundMode |-> mode,
      backgroundColor |-> "#00FF00", backgroundImage |-> "null" ]

\* options a pipeline is constructed with: those of QUALITY_PRESETS.low and
\* .high, and the three background modes
PipelineOptionSets ==
    { presetOptions(q, mode) :
      q \in {QUALITY_PRESETS.low, QUALITY_PRESETS.high},
      mode \in {"blur", "image", "color"} }

\* partial options handed to updateOptions
OptionPatches ==
    { [backgroundMode |-> "blur"], [backgroundMode |-> "image"], [backgroundMode |-> "color"],
      [lightWrap |-> FALSE], [lightWrap |-> TRUE],
      [morphology |-> FALSE], [morphology |-> TRUE],
      [appearRate |-> 85, disappearRate |-> 45] }

\* framebuffers and textures created by init()
GpuResources ==
    { "temporalFBO", "previousMaskFBO", "morphologyFBO1", "morphologyFBO2", "shiftFBO",
      "bilateralFBO", "featherFBO", "compositeFBO", "preCropFBO", "blurFBO1", "blurFBO2",
      "cameraTexture", "maskTexture", "motionTexture", "backgroundTexture" }

\* a texture as createFramebuffer leaves it, and previousMaskFBO after the
\* clear to black in init()
EmptyTexture   == [texture |-> "empty"]
ClearedTexture == [texture |-> "clear"]

\* the pipeline after its constructor; call, passes and calls record the last
\* method called, its draw calls and the number of dispatches
newPipeline(o) ==
    [ opts         |-> o,
      isFirstFrame |-> TRUE,
      cropRect     |-> Null,
      allocated    |-> GpuResources,
      temporalFBO      |-> EmptyTexture,
      previousMaskFBO  |-> ClearedTexture,
      shiftFBO         |-> EmptyTexture,
      processCalls |-> 0,
      calls        |-> 0,
      call         |-> "constructor",
      passes       |-> << >>,
      drawn        |-> << >> ]

PipelineInit == { newPipeline(o) : o \in PipelineOptionSets }

\* one draw call
Pass(prog, target, inputs, uniforms) ==
    [prog |-> prog, target |-> target, inputs |-> inputs, uniforms |-> uniforms]

renderToFBO(fbo, prog, inputs, uniforms) == << Pass(prog, fbo, inputs, uniforms) >>

\* copyFramebuffer: a blit, listed with the draw calls
copyFramebuffer(src, dst) == << Pass("blit", dst, <<src>>, << >>) >>

renderToScreen_alwaysDirect(p, prog, inputs, uniforms) ==
    << Pass(prog, "screen", inputs, uniforms) >>

renderToScreen(p, prog, inputs, uniforms) ==
    IF p.cropRect # Null
    THEN renderToFBO("preCropFBO", prog, inputs, uniforms)
         \o << Pass("crop", "screen", <<"preCropFBO">>, <<p.cropRect>>) >>
    ELSE << Pass(prog, "screen", inputs, uniforms) >>

\* generateBlurredBackground: two passes, then two more rounds at 0.7 of the
\* radius (the radius factor is in 1/10)
generateBlurredBackground ==
    LET h(src, k) == renderToFBO("blurFBO1", "blur", <<src>>, <<"horizontal", k>>)
        v(k)      == renderToFBO("blurFBO2", "blur", <<"blurFBO1">>, <<"vertical", k>>)
    IN h("cameraTexture", 10) \o v(10)
       \o h("blurFBO2", 7) \o v(7) \o h("blurFBO2", 7) \o v(7)

backgroundPasses(p) ==
    IF p.opts.backgroundMode = "blur" THEN generateBlurredBackground ELSE << >>

backgroundTex(p) ==
    IF p.opts.backgroundMode = "blur" THEN "blurFBO2" ELSE "backgroundTexture"

\* stage 4 and stage 5: composite, then light wrap when enabled
compositeAndWrap(p) ==
    LET inputs == <<"cameraTexture", "bilateralFBO", backgroundTex(p)>>
        mode   == <<p.opts.backgroundMode>>
    IN IF p.opts.lightWrap
       THEN renderToFBO("compositeFBO", "composite", inputs, mode)
            \o renderToScreen(p, "lightWrap",
                              <<"compositeFBO", backgroundTex(p), "featherFBO">>, << >>)
       ELSE renderToScreen(p, "composite", inputs, mode)

\* stages 2 to 3.5: bilateral upsample, feather, final erosion
upsampleAndFeather(maskTexture) ==
    renderToFBO("bilateralFBO", "bilateral", <<maskTexture, "cameraTexture">>, << >>)
    \o renderToFBO("featherFBO", "feather", <<"bilateralFBO">>, << >>)
    \o renderToFBO("bilateralFBO", "morphology", <<"featherFBO">>, <<"erode">>)

\* stage 1.5: morphological closing at mask resolution
morphologyPasses(p) ==
    IF p.opts.morphology
    THEN renderToFBO("morphologyFBO1", "morphology", <<"temporalFBO">>, <<"dilate">>)
         \o renderToFBO("morphologyFBO2", "morphology", <<"morphologyFBO1">>, <<"erode">>)
    ELSE << >>

maskForUpsample(p) == IF p.opts.morphology THEN "morphologyFBO2" ELSE "temporalFBO"

\* stage 1: temporal smoothing of the uploaded mask against previousMaskFBO
temporalPass(p, hasMotionMap) ==
    renderToFBO("temporalFBO", "temporal",
                <<"maskTexture", "previousMaskFBO",
                  IF hasMotionMap THEN "motionTexture" ELSE "maskTexture">>,
                << IF p.isFirstFrame THEN 100 ELSE p.opts.appearRate,
                   IF p.isFirstFrame THEN 100 ELSE p.opts.disappearRate >>)

\* the draw calls of process() after the temporal stage and its copy
processTail(p) ==
    morphologyPasses(p) \o upsampleAndFeather(maskForUpsample(p))
    \o backgroundPasses(p) \o compositeAndWrap(p)

\* the draw calls of a dispatch stay on record until the next dispatch
drew(p) == [p EXCEPT !.drawn = p.passes]

process_keepsFirstFrame(p, hasMotionMap) ==
    LET n == p.processCalls + 1
    IN drew([p EXCEPT !.temporalFBO = [temporalOf |-> n],
                 !.previousMaskFBO = [temporalOf |-> n],
                 !.processCalls = n,
                 !.calls = @ + 1,
                 !.call = "process",
                 !.passes = temporalPass(p, hasMotionMap)
                            \o copyFramebuffer("temporalFBO", "previousMaskFBO")
                            \o processTail(p)])

process(p, hasMotionMap) ==
    LET n == p.processCalls + 1
    IN drew([p EXCEPT !.temporalFBO = [temporalOf |-> n],
                 !.previousMaskFBO = [temporalOf |-> n],
                 !.isFirstFrame = FALSE,
                 !.processCalls = n,
                 !.calls = @ + 1,
                 !.call = "process",
                 !.passes = temporalPass(p, hasMotionMap)
                            \o copyFramebuffer("temporalFBO", "previousMaskFBO")
                            \o processTail(p)])

Abs(a) == IF a < 0 THEN -a ELSE a

\* maskShift && (|dx| > 0.0001 || |dy| > 0.0001)
hasShift(maskShift) ==
    maskShift # Null /\ (Abs(maskShift.dx) > 1 \/ Abs(maskShift.dy) > 1)

shiftPasses(maskShift) ==
    IF hasShift(maskShift)
    THEN renderToFBO("shiftFBO", "shift", <<"previousMaskFBO">>, <<maskShift>>)
    ELSE << >>

maskForBilateral(maskShift) ==
    IF hasShift(maskShift) THEN "shiftFBO" ELSE "previousMaskFBO"

\* the draw calls of processInterpolated()
interpolatedPasses(p, maskShift) ==
    shiftPasses(maskShift) \o upsampleAndFeather(maskForBilateral(maskShift))
    \o backgroundPasses(p) \o compositeAndWrap(p)

processInterpolated_storesShift(p, maskShift) ==
    drew([p EXCEPT !.shiftFBO = IF hasShift(maskShift)
                           THEN [shifted |-> p.previousMaskFBO, by |-> maskShift] ELSE @,
              !.previousMaskFBO = IF hasShift(maskShift)
                           THEN [shifted |-> p.previousMaskFBO, by |-> maskShift] ELSE @,
              !.calls = @ + 1,
              !.call = "processInterpolated",
              !.passes = interpolatedPasses(p, maskShift)])

processInterpolated(p, maskShift) ==
    drew([p EXCEPT !.shiftFBO = IF hasShift(maskShift)
                           THEN [shifted |-> p.previousMaskFBO, by |-> maskShift] ELSE @,
              !.calls = @ + 1,
              !.call = "processInterpolated",
              !.passes = interpolatedPasses(p, maskShift)])

setCropRect(p, rect) ==
    [p EXCEPT !.cropRect = rect, !.call = "setCropRect", !.passes = << >>]

\* Object.assign(this.opts, opts)
updateOptions(p, patch) ==
    [p EXCEPT !.opts = [k \in DOMAIN p.opts |->
                           IF k \in DOMAIN patch THEN patch[k] ELSE p.opts[k]],
              !.call = "updateOptions", !.passes = << >>]

Process ==
    /\ pipeline.calls < MaxDispatches
    /\ \E hasMotionMap \in BOOLEAN : pipeline' = process(pipeline, hasMotionMap)

ProcessInterpolated ==
    /\ pipeline.calls < MaxDispatches
    /\ \E maskShift \in ShiftInputs : pipeline' = processInterpolated(pipeline, maskShift)

SetCropRect ==
    \E rect \in CropRectInputs : pipeline' = setCropRect(pipeline, rect)

UpdateOptions ==
    \E patch \in OptionPatches : pipeline' = updateOptions(pipeline, patch)

(***************************************************************************)
(* AutoFramer (src/src/autoframe.ts).  Fractions of the frame are integers  *)
(* in two fixed-point units: bounding boxes and the target crop are in      *)
(* 1/FrameUnit, the smoothed crop in 1/CropUnit, fine enough to hold every  *)
(* quarter step of the low-pass filter exactly.  Zoom uses the same units.  *)
(***************************************************************************)
MaxFramerUpdates == 3                   \* updates explored between two resets

FrameUnit == 12000
Quarters  == 4 ^ MaxFramerUpdates
CropUnit  == FrameUnit * Quarters

\* config defaults of the constructor, enabled or not
FramerConfig(enabled) ==
    [ enabled    |-> enabled,
      smoothing  |-> 75,                        \* 0.75, in 1/100
      maxZoom    |-> (FrameUnit * 15) \div 10,  \* 1.5
      minZoom    |-> (FrameUnit * 12) \div 10,  \* 1.2
      continuous |-> TRUE ]

\* { x: 0, y: 0, width: 1, height: 1, zoom: 1 }
FullFrameCrop ==
    [x |-> 0, y |-> 0, width |-> CropUnit, height |-> CropUnit, zoom |-> CropUnit]

FramerInit(enabled) ==
    [ config          |-> FramerConfig(enabled),
      currentCrop     |-> FullFrameCrop,
      targetCrop      |-> FullFrameCrop,
      frameCount      |-> 0,
      lastBBox        |-> Null,
      hasInitialFrame |-> FALSE ]

\* results of computeMaskBBox, in 1/FrameUnit: no person, a speck, and people
\* filling 50, 60, 75 and 90 per cent of the frame at the centre and near the
\* right and bottom edges
BBoxInputs ==
    { Null, [centerX |-> 6000, centerY |-> 6000, width |-> 600, height |-> 600] }
    \cup { [centerX |-> c[1], centerY |-> c[2], width |-> s[1], height |-> s[2]] :
             c \in {<<6000, 6000>>, <<10800, 3600>>, <<2400, 10200>>},
             s \in {<<6000, 3000>>, <<3600, 7200>>, <<9000, 9000>>, <<10800, 6000>>} }

\* arguments of updateFromFace, in 1/FrameUnit
FaceInputs ==
    { [faceX |-> 6000, faceY |-> 2400, faceWidth |-> 1800, faceHeight |-> 2400] }

\* a product of two fractions in 1/FrameUnit
Times(a, b) == (a * b) \div FrameUnit

computeCropFromBBox(f, bbox) ==
    LET targetFill == (FrameUnit * 9) \div 10
        actualFill == Max(bbox.width, bbox.height)
        rawZoom    == IF actualFill * 100 > FrameUnit
                      THEN (targetFill * FrameUnit) \div actualFill
                      ELSE FrameUnit
        zoom       == Max(f.config.minZoom, Min(f.config.maxZoom, rawZoom))
        cropSize   == (FrameUnit * FrameUnit) \div zoom
        vertOffset == (FrameUnit * 55) \div 100 + ((FrameUnit - actualFill) * 3) \div 100
        cropX      == Max(0, Min(bbox.centerX - cropSize \div 2, FrameUnit - cropSize))
        cropY      == Max(0, Min(bbox.centerY - Times(cropSize, vertOffset),
                                 FrameUnit - cropSize))
    IN [ x      |-> cropX * Quarters,
         y      |-> cropY * Quarters,
         width  |-> Min(cropSize, FrameUnit) * Quarters,
         height |-> Min(cropSize, FrameUnit) * Quarters,
         zoom   |-> zoom * Quarters ]

\* a + (b - a) * t, t in 1/100
lerp(a, b, t) == a + ((b - a) * t) \div 100

\* variant: a non-continuous framer goes on smoothing after the join
smoothCrop_joinForever(f) ==
    LET t == 100 - f.config.smoothing
        c == f.currentCrop
        g == f.targetCrop
    IN IF ~f.hasInitialFrame
       THEN [f EXCEPT !.currentCrop = f.targetCrop]
       ELSE [f EXCEPT !.currentCrop = [ x      |-> lerp(c.x, g.x, t),
                                        y      |-> lerp(c.y, g.y, t),
                                        width  |-> lerp(c.width, g.width, t),
                                        height |-> lerp(c.height, g.height, t),
                                        zoom   |-> lerp(c.zoom, g.zoom, t) ]]

smoothCrop(f) ==
    LET t == 100 - f.config.smoothing
        c == f.currentCrop
        g == f.targetCrop
    IN IF ~f.hasInitialFrame
       THEN [f EXCEPT !.currentCrop = f.targetCrop]
       ELSE IF ~f.config.continuous /\ f.frameCount > 30
       THEN f
       ELSE [f EXCEPT !.currentCrop = [ x      |-> lerp(c.x, g.x, t),
                                        y      |-> lerp(c.y, g.y, t),
                                        width  |-> lerp(c.width, g.width, t),
                                        height |-> lerp(c.height, g.height, t),
                                        zoom   |-> lerp(c.zoom, g.zoom, t) ]]

\* the part of updateFromMask and updateFromFace after the bounding box
updateFromBBox(f, bbox) ==
    LET f1 == smoothCrop([f EXCEPT !.targetCrop = computeCropFromBBox(f, bbox)])
    IN [f1 EXCEPT !.lastBBox = bbox,
                  !.frameCount = @ + 1,
                  !.hasInitialFrame = TRUE]

\* updateFromMask, from the bounding box computeMaskBBox derives from the mask
updateFromMask(f, bbox) ==
    IF ~f.config.enabled THEN f
    ELSE IF bbox = Null \/ Times(bbox.width, bbox.height) * 100 < FrameUnit THEN f
    ELSE updateFromBBox(f, bbox)

updateFromFace(f, face) ==
    LET bodyHeight == Min(face.faceHeight * 5, (FrameUnit * 95) \div 100)
        bodyWidth  == Min(face.faceWidth * 3, (FrameUnit * 8) \div 10)
    IN IF ~f.config.enabled THEN f
       ELSE updateFromBBox(f, [ centerX |-> face.faceX,
                                centerY |-> face.faceY + (face.faceHeight * 3) \div 2,
                                width   |-> bodyWidth,
                                height  |-> bodyHeight ])

\* AutoFramer.reset
resetFramer(f) ==
    [f EXCEPT !.currentCrop = FullFrameCrop,
              !.targetCrop = FullFrameCrop,
              !.lastBBox = Null,
              !.hasInitialFrame = FALSE,
              !.frameCount = 0]

\* SegmentationProcessor.setAutoFrame: updateConfig, and reset() when disabling
setAutoFrame(f, enabled) ==
    LET f1 == [f EXCEPT !.config.enabled = enabled]
    IN IF ~enabled THEN resetFramer(f1) ELSE f1

UpdateFromMask ==
    /\ framer.frameCount < MaxFramerUpdates
    /\ \E bbox \in BBoxInputs : framer' = updateFromMask(framer, bbox)

UpdateFromFace ==
    /\ framer.frameCount < MaxFramerUpdates
    /\ \E face \in FaceInputs : framer' = updateFromFace(framer, face)

ResetFramer == framer' = resetFramer(framer)

SetAutoFrame == \E enabled \in BOOLEAN : framer' = setAutoFrame(framer, enabled)

(***************************************************************************)
(* The auto-framer over a whole join: more than 30 detections, with         *)
(* config.continuous on or off (autoframe.ts 95, 299-322).  A detection is  *)
(* explored when the fixed-point blend of every component is exact.         *)
(***************************************************************************)
MaxDetections == 32           \* detections explored between two resets

\* the framer of new AutoFramer({ enabled, continuous })
FramerWith(enabled, continuous) ==
    [FramerInit(enabled) EXCEPT !.config.continuous = continuous]

\* results of computeMaskBBox: no person, a speck, a person at the centre and
\* one near the right edge
JoinBBoxes ==
    { Null,
      [centerX |-> 6000, centerY |-> 6000, width |-> 600, height |-> 600],
      [centerX |-> 6000, centerY |-> 6000, width |-> 6000, height |-> 3000],
      [centerX |-> 10800, centerY |-> 3600, width |-> 3600, height |-> 7200] }

CropFields == {"x", "y", "width", "height", "zoom"}

\* lerp loses nothing on the way from the current crop to the target of bbox
ExactBlend(f, bbox) ==
    bbox # Null =>
        \A k \in CropFields :
            ((computeCropFromBBox(f, bbox)[k] - f.currentCrop[k]) * (100 - f.config.smoothing))
                % 100 = 0

JoinUpdateFromMask ==
    /\ framer.frameCount < MaxDetections
    /\ \E bbox \in JoinBBoxes :
          /\ ExactBlend(framer, bbox)
          /\ framer' = updateFromMask(framer, bbox)


(***************************************************************************)
(* In-thread path: SegmentationModel.segment (src/src/model.ts) and         *)
(* SegmentationProcessor.processFrame without a worker (processor.ts).      *)
(* A mask is a term: the coordinate space of its pixels ("full" frame or     *)
(* the "crop" fed to the model) and the model call that produced it.  ROI    *)
(* regions are fractions of the frame in 1/RoiUnit, fine enough for every    *)
(* pixel of the mask, the paddings and thresholds, and each halving of the   *)
(* ROI smoothing.  A frame drives the pipeline and the auto-framer of the    *)
(* parts above; the trace fields dispatched and maskPassed record which      *)
(* pipeline method the frame called and with which mask.                     *)
(***************************************************************************)
MaxModelRuns  == 3            \* frames are explored until MaxModelRuns segment() calls
MaxFrameCalls == 4            \* and until MaxFrameCalls processFrame calls

MaskWidth  == 256             \* QUALITY_PRESETS.medium.modelWidth
MaskHeight == 144             \* QUALITY_PRESETS.medium.modelHeight
RoiUnit    == 57600 * (2 ^ MaxModelRuns)
PixelX     == RoiUnit \div MaskWidth
PixelY     == RoiUnit \div MaskHeight

MainFrameSteps == {12, 50}      \* ms between two frames
BackgroundModes == {"none", "blur"}

\* the person pixels (> 0.5) of a confidence mask fill a box, given in the
\* pixels of that mask: nobody, a person cut by the right edge, a person seen
\* through a ROI crop, and a small person in the middle
PersonInputs ==
    { Null,
      [minX |-> 64, minY |-> 14, maxX |-> 255, maxY |-> 100],
      [minX |-> 18, minY |-> 18, maxX |-> 255, maxY |-> 142],
      [minX |-> 100, minY |-> 40, maxX |-> 150, maxY |-> 90] }

\* what segmentForVideo does on one call: throw, return no confidence mask
\* (the stored pixels are scanned again), or return masks showing a person;
\* motion is the velocity the centroid tracker computes from the scan
ProducerOutcomes ==
    { [kind |-> "threw", person |-> Null, motion |-> 0] }
    \cup { [kind |-> "noMasks", person |-> Null, motion |-> v] : v \in MotionValues }
    \cup { [kind |-> "masks", person |-> p, motion |-> v] :
             p \in PersonInputs, v \in MotionValues }

\* SegmentationModel after destroy(), and before init() has resolved
ModelClosed ==
    [ segmenter       |-> FALSE,
      lastMask        |-> Null,
      fullMask        |-> Null,
      lastCropRegion  |-> Null,
      hasPreviousMask |-> FALSE,
      cachedBBox      |-> Null,
      firstCentroid   |-> TRUE,
      velocity        |-> 0 ]

\* SegmentationModel after init()
ModelReady == [ModelClosed EXCEPT !.segmenter = TRUE]

Ceil(a, b) == (a + b - 1) \div b

\* the pixels the back-map visits: x0..x1-1 by y0..y1-1
CropBounds(crop) ==
    [ x0 |-> Max(0, crop.x \div PixelX),
      y0 |-> Max(0, crop.y \div PixelY),
      x1 |-> Min(MaskWidth, Ceil(crop.x + crop.w, PixelX)),
      y1 |-> Min(MaskHeight, Ceil(crop.y + crop.h, PixelY)) ]

\* the box of the person pixels of fullMask after the back-map of a crop-space
\* mask: pixel (x, y) of the frame takes the value of pixel (sx, sy) of the mask
BackMap(person, crop) ==
    IF person = Null THEN Null
    ELSE LET b  == CropBounds(crop)
             sx(x) == Min(Max(0, ((x * PixelX - crop.x) * MaskWidth) \div crop.w),
                          MaskWidth - 1)
             sy(y) == Min(Max(0, ((y * PixelY - crop.y) * MaskHeight) \div crop.h),
                          MaskHeight - 1)
             xs == {x \in b.x0 .. b.x1 - 1 : sx(x) \in person.minX .. person.maxX}
             ys == {y \in b.y0 .. b.y1 - 1 : sy(y) \in person.minY .. person.maxY}
         IN IF xs = {} \/ ys = {} THEN Null
            ELSE \* sx and sy never decrease, so xs and ys are intervals
                 [ minX |-> CHOOSE x \in xs : x - 1 \notin xs,
                   minY |-> CHOOSE y \in ys : y - 1 \notin ys,
                   maxX |-> CHOOSE x \in xs : x + 1 \notin xs,
                   maxY |-> CHOOSE y \in ys : y + 1 \notin ys ]

updateCentroidMotion(m, bbox, motion) ==
    IF bbox.maxY - bbox.minY < 3 THEN m
    ELSE IF m.firstCentroid THEN [m EXCEPT !.firstCentroid = FALSE]
    ELSE [m EXCEPT !.velocity = motion]

\* segment(frame, timestamp, crop, width, height): the adapter after the call
\* and the mask it returns
segment(m, crop, out, call) ==
    IF ~m.segmenter
    THEN [model |-> m, mask |-> IF m.fullMask # Null THEN m.fullMask ELSE m.lastMask]
    ELSE
    LET m1 == [m EXCEPT !.lastCropRegion = crop]
    IN IF out.kind = "threw"
       THEN [model |-> m1, mask |-> m1.lastMask]
       ELSE
       LET m2 == IF out.kind = "masks"
                 THEN [m1 EXCEPT
                         !.lastMask = [space |-> IF crop # Null THEN "crop" ELSE "full",
                                       of |-> call, person |-> out.person],
                         !.hasPreviousMask = @ \/ m1.lastMask # Null]
                 ELSE m1
       IN IF m2.lastCropRegion # Null /\ m2.lastMask # Null
          THEN LET bbox == BackMap(m2.lastMask.person, m2.lastCropRegion)
                   m3 == [m2 EXCEPT
                            !.fullMask = [space |-> "full", of |-> m2.lastMask.of,
                                          person |-> bbox],
                            !.cachedBBox = bbox]
                   m4 == IF bbox # Null THEN updateCentroidMotion(m3, bbox, out.motion)
                         ELSE m3
               IN [model |-> m4, mask |-> m4.fullMask]
          ELSE LET m3 == [m2 EXCEPT
                            !.cachedBBox = IF m2.lastMask = Null THEN Null
                                           ELSE m2.lastMask.person]
                   m4 == IF m3.cachedBBox # Null
                         THEN updateCentroidMotion(m3, m3.cachedBBox, out.motion)
                         ELSE m3
               IN [model |-> m4, mask |-> m4.lastMask]

\* getPersonBBox(padding): the cached box, normalised, padded and clamped
getPersonBBox(m, padding) ==
    IF m.cachedBBox = Null THEN Null
    ELSE LET b  == m.cachedBBox
             nx == Max(0, b.minX * PixelX - padding)
             ny == Max(0, b.minY * PixelY - padding)
             nw == (b.maxX - b.minX) * PixelX + padding * 2
             nh == (b.maxY - b.minY) * PixelY + padding * 2
         IN [x |-> nx, y |-> ny, w |-> Min(nw, RoiUnit - nx), h |-> Min(nh, RoiUnit - ny)]

\* afZoom > 1.02 ? 0.05 * afZoom : 0.05
roiPadding(f) ==
    LET afZoom == f.currentCrop.zoom
    IN IF afZoom * 100 > CropUnit * 102
       THEN ((RoiUnit \div 20) * ((afZoom * 100) \div CropUnit)) \div 100
       ELSE RoiUnit \div 20

\* variant: a mask without a person drops the ROI
updateROICropFromBBox_clearsOnNull(region, rawBBox) ==
    IF rawBBox = Null THEN Null
    ELSE IF region = Null THEN rawBBox
    ELSE region

\* dead-zone smoothing of the ROI: s = 0.5, position and size blended apart
updateROICropFromBBox(region, rawBBox) ==
    IF rawBBox = Null THEN region
    ELSE IF region = Null THEN rawBBox
    ELSE LET posShift    == Max(Abs(rawBBox.x - region.x), Abs(rawBBox.y - region.y))
             sizeShift   == Max(Abs(rawBBox.w - region.w), Abs(rawBBox.h - region.h))
             posChanged  == posShift * 100 > RoiUnit * 3
             sizeChanged == sizeShift * 200 > RoiUnit * 3
             half(a, b)  == (a + b) \div 2
         IN IF posChanged \/ sizeChanged
            THEN [ x |-> IF posChanged THEN half(region.x, rawBBox.x) ELSE region.x,
                   y |-> IF posChanged THEN half(region.y, rawBBox.y) ELSE region.y,
                   w |-> IF sizeChanged THEN half(region.w, rawBBox.w) ELSE region.w,
                   h |-> IF sizeChanged THEN half(region.h, rawBBox.h) ELSE region.h ]
            ELSE region

\* durations measured with performance.now(), in ms
ModelMs    == 8
PipelineMs == 2
NoMetrics  == [modelInferenceMs |-> 0, pipelineMs |-> 0, totalFrameMs |-> 0]

\* the processor after init() without a worker, modelFps fps; the fields from
\* timestamp on record the last processFrame call, the code does not read them
MainInit(fps, mode, segmenterReady) ==
    [ initialized       |-> TRUE,
      backgroundMode    |-> mode,
      backgroundColor   |-> "#00FF00",
      backgroundImage   |-> "null",
      model             |-> IF segmenterReady THEN ModelReady ELSE ModelClosed,
      lastModelTime     |-> 0,
      modelInterval     |-> [num |-> 1000, den |-> fps],
      motionMag         |-> 0,
      interpFrameCount  |-> 0,
      personCropRegion  |-> Null,
      frameCount        |-> 0,
      metrics           |-> NoMetrics,
      timestamp         |-> 0,
      frameCalls        |-> 0,
      modelRuns         |-> 0,
      reports           |-> 0,
      returned          |-> "none",
      segmented         |-> FALSE,
      outcome           |-> "none",
      cropRectSet       |-> FALSE,
      dispatched        |-> "none",
      maskPassed        |-> Null ]

\* computeMaskBBox for a mask whose person pixels fill a box, in 1/FrameUnit
computeMaskBBox(mask) ==
    IF mask.person = Null THEN Null
    ELSE LET person == mask.person IN
         [ centerX |-> ((person.minX + person.maxX) * FrameUnit) \div (2 * MaskWidth),
           centerY |-> ((person.minY + person.maxY) * FrameUnit) \div (2 * MaskHeight),
           width   |-> ((person.maxX - person.minX) * FrameUnit) \div MaskWidth,
           height  |-> ((person.maxY - person.minY) * FrameUnit) \div MaskHeight ]

\* the early returns of processFrame: nothing but the trace of the call changes
passThrough(p, timestamp) ==
    [p EXCEPT !.timestamp = timestamp, !.frameCalls = @ + 1,
              !.returned = "null", !.segmented = FALSE, !.outcome = "none",
              !.cropRectSet = FALSE, !.dispatched = "none", !.maskPassed = Null]

\* variant: a model run that returns no mask does not count as interpolated
renderInThread_noMaskKeepsCount(p, f, timestamp, out) ==
    LET p0 == [passThrough(p, timestamp) EXCEPT
                  !.returned = "canvas", !.cropRectSet = TRUE,
                  !.frameCount = @ + 1, !.reports = @ + 1]
    IN IF shouldRunModel(p, timestamp)
       THEN LET r  == segment(p.model, p.personCropRegion, out, p.modelRuns + 1)
                p1 == [p0 EXCEPT !.model = r.model,
                                 !.lastModelTime = timestamp,
                                 !.modelRuns = @ + 1,
                                 !.segmented = TRUE,
                                 !.outcome = IF p.model.segmenter THEN out.kind
                                             ELSE "unavailable"]
            IN IF r.mask # Null
               THEN [p1 EXCEPT
                       !.personCropRegion =
                           updateROICropFromBBox(@, getPersonBBox(r.model, roiPadding(f))),
                       !.motionMag = r.model.velocity,
                       !.interpFrameCount = 0,
                       !.dispatched = "process",
                       !.maskPassed = r.mask,
                       !.metrics = [modelInferenceMs |-> ModelMs, pipelineMs |-> PipelineMs,
                                    totalFrameMs |-> ModelMs + PipelineMs]]
               ELSE [p1 EXCEPT
                       !.dispatched = "processInterpolated",
                       !.metrics = [modelInferenceMs |-> ModelMs, pipelineMs |-> PipelineMs,
                                    totalFrameMs |-> ModelMs + PipelineMs]]
       ELSE [p0 EXCEPT
               !.interpFrameCount = @ + 1,
               !.dispatched = "processInterpolated",
               !.metrics = [modelInferenceMs |-> 0, pipelineMs |-> PipelineMs,
                            totalFrameMs |-> PipelineMs]]

\* the main-thread branch of processFrame for a frame that is processed
renderInThread(p, f, timestamp, out) ==
    LET p0 == [passThrough(p, timestamp) EXCEPT
                  !.returned = "canvas", !.cropRectSet = TRUE,
                  !.frameCount = @ + 1, !.reports = @ + 1]
    IN IF shouldRunModel(p, timestamp)
       THEN LET r  == segment(p.model, p.personCropRegion, out, p.modelRuns + 1)
                p1 == [p0 EXCEPT !.model = r.model,
                                 !.lastModelTime = timestamp,
                                 !.modelRuns = @ + 1,
                                 !.segmented = TRUE,
                                 !.outcome = IF p.model.segmenter THEN out.kind
                                             ELSE "unavailable"]
            IN IF r.mask # Null
               THEN [p1 EXCEPT
                       !.personCropRegion =
                           updateROICropFromBBox(@, getPersonBBox(r.model, roiPadding(f))),
                       !.motionMag = r.model.velocity,
                       !.interpFrameCount = 0,
                       !.dispatched = "process",
                       !.maskPassed = r.mask,
                       !.metrics = [modelInferenceMs |-> ModelMs, pipelineMs |-> PipelineMs,
                                    totalFrameMs |-> ModelMs + PipelineMs]]
               ELSE [p1 EXCEPT
                       !.interpFrameCount = @ + 1,
                       !.dispatched = "processInterpolated",
                       !.metrics = [modelInferenceMs |-> ModelMs, pipelineMs |-> PipelineMs,
                                    totalFrameMs |-> ModelMs + PipelineMs]]
       ELSE [p0 EXCEPT
               !.interpFrameCount = @ + 1,
               !.dispatched = "processInterpolated",
               !.metrics = [modelInferenceMs |-> 0, pipelineMs |-> PipelineMs,
                            totalFrameMs |-> PipelineMs]]

processFrame_ignoresMode(p, f, timestamp, out) ==
    IF ~p.initialized THEN passThrough(p, timestamp)
    ELSE renderInThread(p, f, timestamp, out)

processFrame(p, f, timestamp, out) ==
    IF ~p.initialized THEN passThrough(p, timestamp)
    ELSE IF p.backgroundMode = "none" THEN passThrough(p, timestamp)
    ELSE renderInThread(p, f, timestamp, out)

\* the rect processFrame hands to pipeline.setCropRect: the auto-frame crop
\* when its zoom is above 1.02, else null
autoFrameCropRect(f) ==
    LET cropRect == f.currentCrop
    IN IF cropRect.zoom * 100 > CropUnit * 102
       THEN [x |-> cropRect.x, y |-> cropRect.y, w |-> cropRect.width, h |-> cropRect.height]
       ELSE Null

\* getAccumulatedShift(), in 1/10000 of the frame: velocity times the frames
\* since the last mask, none inside the dead zone of 0.003, at most 0.12
getAccumulatedShift(p) ==
    IF p.motionMag < 3 THEN [dx |-> 0, dy |-> 0]
    ELSE [dx |-> Min(1200, p.motionMag * 10 * p.interpFrameCount), dy |-> 0]

\* the pipeline after the frame that left the processor as p1
pipelineAfterFrame(pl, f, p1) ==
    IF p1.returned = "null" THEN pl
    ELSE LET pl1 == setCropRect(pl, autoFrameCropRect(f))
         IN IF p1.dispatched = "process"
            THEN process(pl1, p1.model.hasPreviousMask)
            ELSE processInterpolated(pl1, getAccumulatedShift(p1))

\* one frame from the frame source; the producer's outcome matters on the
\* frames that call segment()
ProcessFrameInThread ==
    /\ main.frameCalls < MaxFrameCalls
    /\ main.modelRuns < MaxModelRuns
    /\ framer.frameCount < MaxFramerUpdates
    /\ \E step \in MainFrameSteps, out \in ProducerOutcomes :
          /\ main' = processFrame(main, framer, main.timestamp + step, out)
          /\ framer' = IF main'.dispatched = "process"
                       THEN updateFromMask(framer, computeMaskBBox(main'.maskPassed))
                       ELSE framer
          /\ pipeline' = pipelineAfterFrame(pipeline, framer, main')

\* SegmentationProcessor.setBackgroundMode
setBackgroundMode(p, mode) == [p EXCEPT !.backgroundMode = mode]

SetBackgroundMode ==
    /\ \E mode \in BackgroundModes :
          /\ main' = setBackgroundMode(main, mode)
          /\ pipeline' = IF mode # "none" /\ main.initialized
                         THEN updateOptions(pipeline, [backgroundMode |-> mode])
                         ELSE pipeline
    /\ UNCHANGED framer

\* model.init() resolves while frames are already accepted (the fallback after
\* a failed worker init)
ModelInitDone ==
    /\ main.initialized
    /\ ~main.model.segmenter
    /\ main' = [main EXCEPT !.model.segmenter = TRUE]
    /\ UNCHANGED <<framer, pipeline>>

\* SegmentationProcessor.destroy
destroy(p) == [p EXCEPT !.model = ModelClosed, !.initialized = FALSE]

\* PostProcessingPipeline.destroy: every GPU resource is deleted
destroyPipeline(p) ==
    [p EXCEPT !.allocated = {}, !.call = "destroy", !.passes = << >>]

Destroy ==
    /\ main.initialized
    /\ main' = destroy(main)
    /\ pipeline' = destroyPipeline(pipeline)
    /\ UNCHANGED framer

(***************************************************************************)
(* Lifecycle: SegmentationProcessor constructor, init() and destroy()       *)
(* (processor.ts 392-580, 1040-1054) with ModelWorkerClient.init()          *)
(* (model-worker.ts 246-286) and SegmentationModel.init() (model.ts         *)
(* 104-118).  boot holds the options init() reads, the fields it sets that  *)
(* main does not hold (workerClient, pipeline, adaptive as null or not) and *)
(* the await the running init() call is suspended at.  An init() or         *)
(* destroy() call is made when no earlier init() call is still pending.     *)
(***************************************************************************)
MaxInits == 2                 \* init() is called at most MaxInits times

\* the processor after its constructor: optsAdaptive is opts.adaptive and
\* adaptive tells whether this.adaptive holds a controller; workerFailure and
\* rejectedAt record why the worker was given up and which await rejected
BootNew(useWorker, isSafari, adaptiveOn) ==
    [ useWorker     |-> useWorker,
      isSafari      |-> isSafari,
      quality       |-> "medium",
      optsAdaptive  |-> adaptiveOn,
      adaptive      |-> adaptiveOn,
      workerClient  |-> "null",
      hasPipeline   |-> FALSE,
      phase         |-> "none",
      result        |-> "none",
      workerFailure |-> "none",
      rejectedAt    |-> "none",
      inits         |-> 0 ]

\* init() has resolved on the in-thread path, and on the worker path
BootInThread ==
    [BootNew(FALSE, FALSE, FALSE) EXCEPT !.hasPipeline = TRUE, !.result = "resolved", !.inits = 1]
BootWorkerReady ==
    [BootNew(TRUE, FALSE, FALSE) EXCEPT !.hasPipeline = TRUE, !.result = "resolved", !.inits = 1,
                                        !.workerClient = "ready"]

\* the objects one call works on
World(b, m, pl, a) == [boot |-> b, main |-> m, pipeline |-> pl, adaptive |-> a]

\* level.morphology: QualityLevel and QUALITY_TIERS have no such property,
\* the read gives undefined, which `if (this.opts.morphology)` takes as false
levelMorphology(level) ==
    IF "morphology" \in DOMAIN level THEN level.morphology ELSE FALSE

\* the options the applier hands to pipeline.updateOptions
applierPatch(level) ==
    [ appearRate |-> level.appearRate, disappearRate |-> level.disappearRate,
      featherRadius |-> level.featherRadius, rangeSigma |-> level.rangeSigma,
      blurRadius |-> level.blurRadius, lightWrap |-> level.lightWrap,
      morphology |-> levelMorphology(level) ]

\* the callback the constructor registers with adaptive.onApply
applyLevel(w, level) ==
    [w EXCEPT !.main.modelInterval = [num |-> 1000, den |-> level.modelFps],
              !.pipeline = IF w.boot.hasPipeline
                           THEN updateOptions(@, applierPatch(level))
                           ELSE @]

\* a call of the controller made by the processor, a1 the controller after
\* it: the callbacks it applied ran inside the call
withController(w, a1) ==
    LET w1 == [w EXCEPT !.adaptive = a1]
    IN IF a1.applied # << >> THEN applyLevel(w1, getCurrentLevel(a1)) ELSE w1

\* init() returns
initFinish(w) == [w EXCEPT !.boot.phase = "none", !.boot.result = "resolved"]

\* variant: the catch branch leaves the failed client in place
workerInitFailed_keepsClient(w, why) ==
    [w EXCEPT !.boot.workerFailure = why,
              !.boot.phase = "fallbackInit"]

\* the catch branch of init(): the client is destroyed and the in-thread
\* model is initialised instead
workerInitFailed(w, why) ==
    [w EXCEPT !.boot.workerClient = "null",
              !.boot.workerFailure = why,
              !.boot.phase = "fallbackInit"]

\* new ModelWorkerClient(...), onMaskReady, await workerClient.init()
initWorker(w, ctorThrows) ==
    IF ctorThrows THEN workerInitFailed(w, "constructor")
    ELSE [w EXCEPT !.boot.workerClient = "starting", !.boot.phase = "workerInit"]

\* init() from the pipeline constructor to its next await
initPipeline(w, ctorThrows) ==
    LET mode == IF w.main.backgroundMode = "none" THEN "blur" ELSE w.main.backgroundMode
        w1 == [w EXCEPT !.pipeline = newPipeline(
                                         [presetOptions(QUALITY_PRESETS[w.boot.quality], mode)
                                            EXCEPT !.backgroundColor = w.main.backgroundColor,
                                                   !.backgroundImage = w.main.backgroundImage]),
                        !.boot.hasPipeline = TRUE,
                        !.main.initialized = TRUE]
        w2 == IF w1.boot.adaptive
              THEN [withController(w1, setTier(w1.adaptive, 0)) EXCEPT
                       !.adaptive = unlock(@)]
              ELSE w1
    IN IF w2.boot.useWorker /\ w2.boot.isSafari
       THEN [w2 EXCEPT !.boot.phase = "safariInit"]
       ELSE IF w2.boot.useWorker
       THEN initWorker(w2, ctorThrows)
       ELSE initFinish(w2)

\* init() from the call to its first await: the objects of the previous
\* init() are destroyed and a new SegmentationModel is made
initStart(w, ctorThrows) ==
    LET w1 == [w EXCEPT !.boot.workerClient = "null",
                        !.pipeline = IF w.boot.hasPipeline THEN destroyPipeline(@) ELSE @,
                        !.boot.hasPipeline = FALSE,
                        !.main.model = ModelClosed,
                        !.boot.inits = @ + 1,
                        !.boot.result = "pending",
                        !.boot.workerFailure = "none",
                        !.boot.rejectedAt = "none"]
    IN IF ~w1.boot.useWorker
       THEN [w1 EXCEPT !.boot.phase = "modelInit"]
       ELSE initPipeline(w1, ctorThrows)

\* model.init() resolves and init() runs on
modelInitResolved(w) ==
    LET w1 == [w EXCEPT !.main.model.segmenter = TRUE]
    IN IF w.boot.phase = "modelInit" THEN initPipeline(w1, FALSE) ELSE initFinish(w1)

\* model.init() rejects (the model or the WASM files cannot be loaded): no
\* await of it is inside a try, init() rejects
modelInitRejected(w) ==
    [w EXCEPT !.boot.rejectedAt = w.boot.phase,
              !.boot.phase = "none",
              !.boot.result = "rejected"]

\* the worker posts 'ready': workerClient.init() resolves
workerReady(w) == initFinish([w EXCEPT !.boot.workerClient = "ready"])

\* destroy(): the fields of main, then pipeline, worker client and controller
destroyProcessor(w) ==
    [w EXCEPT !.main = destroy(@),
              !.pipeline = IF w.boot.hasPipeline THEN destroyPipeline(@) ELSE @,
              !.boot.hasPipeline = FALSE,
              !.boot.workerClient = "null",
              !.boot.adaptive = FALSE]

\* the fields before init(): quality 'medium', background mode 'blur'
MainNew ==
    [MainInit(QUALITY_PRESETS.medium.modelFps, "blur", FALSE) EXCEPT !.initialized = FALSE]

\* this.pipeline = null: the variable holds no live object
NoPipeline == destroyPipeline(newPipeline(presetOptions(QUALITY_PRESETS.medium, "blur")))

\* producer outcomes and frame durations of the lifecycle: a call that throws,
\* masks with a moving person; a fast and a critical frame
LifecycleOutcomes ==
    { [kind |-> "threw", person |-> Null, motion |-> 0],
      [kind |-> "masks", person |-> [minX |-> 100, minY |-> 40, maxX |-> 150, maxY |-> 90],
       motion |-> 200] }
LifecycleDurations == {2, 50}
LifecycleSteps == {1000}

\* variant: the controller is fed before the frame is dispatched
frameWithController_reportsFirst(w, f, timestamp, out, dur) ==
    LET reported(w1) ==
            IF w.boot.adaptive
            THEN withController(w1, reportFrame(w.adaptive, dur, timestamp))
            ELSE w1
        dispatched(w1, m1) ==
            [w1 EXCEPT !.main = [m1 EXCEPT !.metrics.totalFrameMs = dur,
                                           !.modelInterval = w1.main.modelInterval],
                       !.pipeline = pipelineAfterFrame(@, f, m1)]
        framed(m1) ==
            IF m1.returned = "null" THEN [w EXCEPT !.main = m1]
            ELSE dispatched(reported(w), m1)
    IN framed(IF w.boot.hasPipeline THEN processFrame(w.main, f, timestamp, out)
              ELSE passThrough(w.main, timestamp))

\* processFrame on the in-thread branch with the report to the controller:
\* null while init() has no pipeline yet
frameWithController(w, f, timestamp, out, dur) ==
    LET reported(w1) ==
            IF w.boot.adaptive
            THEN withController(w1, reportFrame(w.adaptive, dur, timestamp))
            ELSE w1
        framed(m1) ==
            IF m1.returned = "null" THEN [w EXCEPT !.main = m1]
            ELSE reported([w EXCEPT !.main = [m1 EXCEPT !.metrics.totalFrameMs = dur],
                                    !.pipeline = pipelineAfterFrame(@, f, m1)])
    IN framed(IF w.boot.hasPipeline THEN processFrame(w.main, f, timestamp, out)
              ELSE passThrough(w.main, timestamp))

TheWorld == World(boot, main, pipeline, adaptive)

Becomes(w) ==
    /\ boot' = w.boot
    /\ main' = w.main
    /\ pipeline' = w.pipeline
    /\ adaptive' = w.adaptive

InitCall ==
    /\ boot.phase = "none"
    /\ boot.inits < MaxInits
    /\ \E ctorThrows \in BOOLEAN :
          /\ ctorThrows => (boot.useWorker /\ ~boot.isSafari)
          /\ Becomes(initStart(TheWorld, ctorThrows))
    /\ UNCHANGED <<now, framer>>

ModelInitResolves ==
    /\ boot.phase \in {"modelInit", "safariInit", "fallbackInit"}
    /\ Becomes(modelInitResolved(TheWorld))
    /\ UNCHANGED <<now, framer>>

ModelInitRejects ==
    /\ boot.phase \in {"modelInit", "safariInit", "fallbackInit"}
    /\ Becomes(modelInitRejected(TheWorld))
    /\ UNCHANGED <<now, framer>>

WorkerReady ==
    /\ boot.phase = "workerInit"
    /\ Becomes(workerReady(TheWorld))
    /\ UNCHANGED <<now, framer>>

\* worker.onerror fires before 'ready'
WorkerError ==
    /\ boot.phase = "workerInit"
    /\ Becomes(workerInitFailed(TheWorld, "error"))
    /\ UNCHANGED <<now, framer>>

\* the 30 s timer of ModelWorkerClient.init() fires before 'ready'
WorkerTimeout ==
    /\ boot.phase = "workerInit"
    /\ Becomes(workerInitFailed(TheWorld, "timeout"))
    /\ UNCHANGED <<now, framer>>

DestroyCall ==
    /\ boot.phase = "none"
    /\ main.initialized
    /\ Becomes(destroyProcessor(TheWorld))
    /\ UNCHANGED <<now, framer>>

\* setBackgroundMode, setBackgroundColor and setBackgroundImage on a
\* processor with or without a pipeline (this.pipeline?.updateOptions)
setBackgroundModeOf(w, mode) ==
    [w EXCEPT !.main = setBackgroundMode(@, mode),
              !.pipeline = IF mode # "none" /\ w.boot.hasPipeline
                           THEN updateOptions(@, [backgroundMode |-> mode])
                           ELSE @]

setBackgroundColor(w, color) ==
    [w EXCEPT !.main.backgroundColor = color,
              !.pipeline = IF w.boot.hasPipeline
                           THEN updateOptions(@, [backgroundColor |-> color])
                           ELSE @]

setBackgroundImage(w, image) ==
    [w EXCEPT !.main.backgroundImage = image,
              !.pipeline = IF w.boot.hasPipeline
                           THEN updateOptions(@, [backgroundImage |-> image,
                                                  backgroundMode |-> "image"])
                           ELSE @]

\* the modes, colours and images the setters are called with
AllBackgroundModes == {"none", "blur", "image", "color"}
BackgroundColors == {"#00FF00", "#1a1a2e"}
BackgroundImages == {"office"}

SetBackgroundModeCall ==
    /\ \E mode \in AllBackgroundModes : Becomes(setBackgroundModeOf(TheWorld, mode))
    /\ UNCHANGED <<now, framer>>

SetBackgroundColor ==
    /\ \E color \in BackgroundColors : Becomes(setBackgroundColor(TheWorld, color))
    /\ UNCHANGED <<now, framer>>

SetBackgroundImage ==
    /\ \E image \in BackgroundImages : Becomes(setBackgroundImage(TheWorld, image))
    /\ UNCHANGED <<now, framer>>

\* a frame while no worker client exists
LifecycleFrame ==
    /\ boot.workerClient = "null"
    /\ main.frameCalls < MaxFrameCalls
    /\ main.modelRuns < MaxModelRuns
    /\ \E step \in LifecycleSteps, out \in LifecycleOutcomes, dur \in LifecycleDurations :
          /\ Becomes(frameWithController(TheWorld, framer, main.timestamp + step, out, dur))
          /\ now' = main.timestamp + step
    /\ UNCHANGED framer

(***************************************************************************)
(* The two mask adapters side by side: SegmentationModel.segment (model.ts  *)
(* 132-295) and the worker's segment (model-worker.ts 70-205), called with  *)
(* the same crop and the same producer outcome, and what processFrame hands *)
(* to pipeline.process for each (processor.ts 628-656, 685-709).            *)
(***************************************************************************)
MaxSegmentCalls == 3          \* the adapters are called up to MaxSegmentCalls times

\* the worker's globals after 'ready'
WorkerAdapterInit ==
    [ lastMask         |-> Null,
      previousFullMask |-> Null,
      hasPreviousMask  |-> FALSE ]

\* the worker's segment(bitmap, timestamp, crop): its globals after the call
\* and the 'mask' message it posts, if any.  The motion buffer is allocated
\* on every call and filled only when a previous mask exists.
workerSegment(w, crop, out, call) ==
    IF out.kind # "masks"
    THEN [worker |-> w, message |-> Null]
    ELSE LET lastMask == [space |-> IF crop # Null THEN "crop" ELSE "full",
                          of |-> call, person |-> out.person]
             bbox     == IF crop # Null THEN BackMap(out.person, crop) ELSE out.person
             outMask  == [space |-> "full", of |-> call, person |-> bbox]
             motion   == IF w.hasPreviousMask /\ w.previousFullMask # Null
                         THEN [diff |-> <<outMask.of, w.previousFullMask.of>>]
                         ELSE [diff |-> << >>]
         IN [ worker  |-> [lastMask |-> lastMask, previousFullMask |-> outMask,
                           hasPreviousMask |-> TRUE],
              message |-> [mask |-> outMask, motion |-> motion, bbox |-> bbox] ]

\* getMotionMap(): null unless a current and a previous mask exist
getMotionMap(m) ==
    LET current == IF m.fullMask # Null THEN m.fullMask ELSE m.lastMask
    IN IF current = Null \/ ~m.hasPreviousMask THEN Null
       ELSE [diff |-> <<current.of>>]

\* what the in-thread branch hands to pipeline.process after segment()
\* returned r: nothing when there is no mask
handedInThread(r) ==
    IF r.mask = Null THEN Null
    ELSE [ mask |-> r.mask, bbox |-> r.model.cachedBBox,
           hasMotionMap |-> getMotionMap(r.model) # Null ]

\* what the worker branch hands to pipeline.process once onMaskReady stored
\* the message: workerMask, workerMotion; hasMotionMap = motionMap != null
handedWorker(message) ==
    IF message = Null THEN Null
    ELSE [ mask |-> message.mask, bbox |-> message.bbox,
           hasMotionMap |-> message.motion # Null ]

\* both adapters after init, nothing handed to a pipeline yet; calls, out,
\* firstMask and handed record the last call
AdaptersInit ==
    [ model      |-> ModelReady,
      worker     |-> WorkerAdapterInit,
      calls      |-> 0,
      masks      |-> 0,
      out        |-> "none",
      inThread   |-> Null,
      viaWorker  |-> Null ]

\* the crops the processor passes: none, or the padded bbox of the last mask
CropInputs(m) == {Null, getPersonBBox(m, RoiUnit \div 20)}

segmentBoth(a, crop, out) ==
    LET r == segment(a.model, crop, out, a.calls + 1)
        v == workerSegment(a.worker, crop, out, a.calls + 1)
    IN [ model     |-> r.model,
         worker    |-> v.worker,
         calls     |-> a.calls + 1,
         masks     |-> IF out.kind = "masks" THEN a.masks + 1 ELSE a.masks,
         out       |-> out.kind,
         inThread  |-> handedInThread(r),
         viaWorker |-> handedWorker(v.message) ]

SegmentBoth ==
    /\ adapters.calls < MaxSegmentCalls
    /\ \E crop \in CropInputs(adapters.model), out \in ProducerOutcomes :
          adapters' = segmentBoth(adapters, crop, out)

(***************************************************************************)
(* The mask upload of PostProcessingPipeline.process (pipeline.ts 256-277)  *)
(* with padMaskEdges (pipeline.ts 746-769).  A mask of w by h pixels is a   *)
(* function on 0..w*h-1, row by row; padMaskEdges writes into the array it  *)
(* is given, one element after the other.                                   *)
(***************************************************************************)
PAD         == 4
MaxMaskSide == 10             \* masks of 2*PAD+1 .. MaxMaskSide pixels a side

\* mask[dst] = mask[src] for each <<dst, src>> of moves[lo..hi], in order;
\* the array keeps its length throughout (a typed array never grows)
RECURSIVE copyRange(_, _, _, _)
copyRange(mask, moves, lo, hi) ==
    IF lo > hi THEN mask
    ELSE IF lo = hi THEN [mask EXCEPT ![moves[lo][1]] = mask[moves[lo][2]]]
    ELSE LET mid  == (lo + hi) \div 2
             half == copyRange(mask, moves, lo, mid)
         IN IF DOMAIN half = DOMAIN mask
            THEN copyRange(half, moves, mid + 1, hi)
            ELSE half

copyAll(mask, moves) == copyRange(mask, moves, 1, Len(moves))

\* bottom PAD rows <- row h - PAD - 1
bottomMoves(w, h) ==
    [k \in 1..(PAD * w) |->
        LET r == (k - 1) \div w
            x == (k - 1) % w
        IN <<(h - 1 - r) * w + x, (h - PAD - 1) * w + x>>]

\* top PAD rows <- row PAD
topMoves(w, h) ==
    [k \in 1..(PAD * w) |->
        LET r == (k - 1) \div w
            x == (k - 1) % w
        IN <<r * w + x, PAD * w + x>>]

\* left and right PAD columns of every row, the two sides in turn
columnMoves(w, h) ==
    [k \in 1..(h * PAD * 2) |->
        LET y   == (k - 1) \div (PAD * 2)
            c   == ((k - 1) % (PAD * 2)) \div 2
            off == y * w
        IN IF (k - 1) % 2 = 0
           THEN <<off + c, off + PAD>>
           ELSE <<off + w - 1 - c, off + w - 1 - PAD>>]

\* variant: only the rows are padded
padMaskEdges_rowsOnly(mask, w, h) ==
    copyAll(copyAll(mask, bottomMoves(w, h)), topMoves(w, h))

padMaskEdges(mask, w, h) ==
    copyAll(copyAll(copyAll(mask, bottomMoves(w, h)), topMoves(w, h)),
            columnMoves(w, h))

\* the mask data process() hands to texImage2D: a Float32Array is padded in
\* place first, a Uint8Array is uploaded as it is
uploadedMask(kind, mask, w, h) ==
    IF kind = "Float32Array" THEN padMaskEdges(mask, w, h) ELSE mask

MaskSides == (2 * PAD + 1)..MaxMaskSide
MaskKinds == {"Float32Array", "Uint8Array"}

\* masks to upload: every pixel different from every other, and all pixels 0
\* but one
MaskInputs(w, h) ==
    { [i \in 0..(w * h - 1) |-> i] }
    \cup { [i \in 0..(w * h - 1) |-> IF i = k THEN 1 ELSE 0] : k \in 0..(w * h - 1) }

\* a mask handed to process(), not uploaded yet
UploadInit ==
    UNION { { [ kind |-> kind, w |-> w, h |-> h, input |-> mask, data |-> mask,
                uploaded |-> FALSE ] :
              kind \in MaskKinds, mask \in MaskInputs(w, h) } :
            w \in MaskSides, h \in MaskSides }

\* no mask at hand
NoUpload ==
    [ kind |-> "Float32Array", w |-> 0, h |-> 0, input |-> << >>, data |-> << >>,
      uploaded |-> FALSE ]

\* process() up to the upload of the mask
Upload ==
    /\ ~upload.uploaded
    /\ upload.w > 0
    /\ upload' = [upload EXCEPT
                     !.data = uploadedMask(upload.kind, upload.data, upload.w, upload.h),
                     !.uploaded = TRUE]

(***************************************************************************)
(* Diagnostics (processor.ts 286-304, 1057-1300) and the frame path with    *)
(* its diagnostics calls (processor.ts 590-742).  A processor is here the   *)
(* record of all its objects: boot, main, pipeline, adaptive, framer and     *)
(* diag, the diag* fields; every diagnostics method maps a processor to a    *)
(* processor.  emitted is the list of events handed to opts.onDiagnostic.    *)
(* diagnosticsIncludeImage keeps its default, false.                         *)
(***************************************************************************)
MaxDiagFrames == 3            \* the two processors get up to MaxDiagFrames frames

DiagLogCap    == 500
EdgeThreshold == RoiUnit \div 50        \* 0.02 of the frame

\* the diag* fields of a new processor with opts.diagnosticsLevel = level
NoDiagnostics(level) ==
    [ diagLevel             |-> level,
      diagTimer             |-> FALSE,
      diagInitData          |-> FALSE,
      diagBBoxAtEdgeCount   |-> 0,
      diagMaskEmptyCount    |-> 0,
      diagMaskCoverageAccum |-> 0,
      diagMaskCoverageCount |-> 0,
      diagModelMsAccum      |-> 0,
      diagModelFrameCount   |-> 0,
      diagPipelineMsAccum   |-> 0,
      diagTotalMsAccum      |-> 0,
      diagTotalMsWindow     |-> << >>,
      diagFrameCount        |-> 0,
      diagLastMaskCoverage  |-> 0,
      diagLogs              |-> << >>,
      emitted               |-> << >> ]

\* diagLog(msg): the entry is kept unless the level is 'off'
diagLog(t, msg) ==
    IF t.diag.diagLevel = "off" THEN t
    ELSE LET logs == Append(t.diag.diagLogs, msg)
         IN [t EXCEPT !.diag.diagLogs = IF Len(logs) > DiagLogCap THEN Tail(logs) ELSE logs]

\* log(msg) with opts.debug off
log(t, msg) == diagLog(t, msg)

resetDiagAccumulators(t) ==
    [t EXCEPT !.diag.diagBBoxAtEdgeCount = 0,
              !.diag.diagMaskEmptyCount = 0,
              !.diag.diagMaskCoverageAccum = 0,
              !.diag.diagMaskCoverageCount = 0,
              !.diag.diagModelMsAccum = 0,
              !.diag.diagModelFrameCount = 0,
              !.diag.diagPipelineMsAccum = 0,
              !.diag.diagTotalMsAccum = 0,
              !.diag.diagTotalMsWindow = << >>,
              !.diag.diagFrameCount = 0,
              !.diag.diagLogs = << >>]

\* startDiagnostics(): the init data is captured once, and unless the level
\* is 'off' the init event is emitted and the summary timer started
startDiagnostics(t) ==
    LET t1 == [t EXCEPT !.diag.diagTimer = FALSE]
        t2 == IF ~t1.diag.diagInitData /\ t1.boot.hasPipeline
              THEN [t1 EXCEPT !.diag.diagInitData = TRUE]
              ELSE t1
    IN IF t2.diag.diagLevel = "off" THEN t2
       ELSE LET t3 == IF t2.diag.diagInitData
                      THEN [t2 EXCEPT !.diag.emitted = Append(@, [type |-> "init", frames |-> 0])]
                      ELSE t2
            IN [resetDiagAccumulators(t3) EXCEPT !.diag.diagTimer = TRUE]

\* emitDiagSummary(): one summary event of the frames since the last one
emitDiagSummary(t) ==
    IF t.diag.diagFrameCount = 0 THEN t
    ELSE resetDiagAccumulators(
             [t EXCEPT !.diag.emitted =
                           Append(@, [type |-> "summary", frames |-> t.diag.diagFrameCount])])

\* the pixels above 0.5 of a mask whose person pixels fill a box
personPixels(mask) ==
    IF mask.person = Null THEN 0
    ELSE (mask.person.maxX - mask.person.minX + 1) * (mask.person.maxY - mask.person.minY + 1)

\* collectDiagFromMask(mask) for a mask that is not null; the coverage is
\* counted in pixels
collectDiagFromMask(t, mask) ==
    IF t.diag.diagLevel = "off" THEN t
    ELSE LET t1 == [t EXCEPT !.diag.diagLastMaskCoverage = personPixels(mask),
                             !.diag.diagMaskCoverageAccum = @ + personPixels(mask),
                             !.diag.diagMaskCoverageCount = @ + 1]
             t2 == IF personPixels(mask) = 0
                   THEN diagLog([t1 EXCEPT !.diag.diagMaskEmptyCount = @ + 1], "mask-empty")
                   ELSE t1
             crop == t2.main.personCropRegion
             rawBBox == getPersonBBox(t2.main.model, 0)
         IN IF crop # Null /\ rawBBox # Null
            THEN IF \/ rawBBox.x < crop.x + EdgeThreshold
                    \/ rawBBox.y < crop.y + EdgeThreshold
                    \/ rawBBox.x + rawBBox.w > crop.x + crop.w - EdgeThreshold
                    \/ rawBBox.y + rawBBox.h > crop.y + crop.h - EdgeThreshold
                 THEN [t2 EXCEPT !.diag.diagBBoxAtEdgeCount = @ + 1]
                 ELSE t2
            ELSE t2

\* variant: the timing of the frame is cleared once it is accumulated
collectDiagTiming_clearsMetrics(t) ==
    IF t.diag.diagLevel = "off" THEN t
    ELSE LET metrics == t.main.metrics
         IN [t EXCEPT
               !.diag.diagModelMsAccum =
                   IF metrics.modelInferenceMs > 0 THEN @ + metrics.modelInferenceMs ELSE @,
               !.diag.diagModelFrameCount =
                   IF metrics.modelInferenceMs > 0 THEN @ + 1 ELSE @,
               !.diag.diagPipelineMsAccum = @ + metrics.pipelineMs,
               !.diag.diagTotalMsAccum = @ + metrics.totalFrameMs,
               !.diag.diagTotalMsWindow = Append(@, metrics.totalFrameMs),
               !.diag.diagFrameCount = @ + 1,
               !.main.metrics = NoMetrics]

\* collectDiagTiming()
collectDiagTiming(t) ==
    IF t.diag.diagLevel = "off" THEN t
    ELSE LET metrics == t.main.metrics
         IN [t EXCEPT
               !.diag.diagModelMsAccum =
                   IF metrics.modelInferenceMs > 0 THEN @ + metrics.modelInferenceMs ELSE @,
               !.diag.diagModelFrameCount =
                   IF metrics.modelInferenceMs > 0 THEN @ + 1 ELSE @,
               !.diag.diagPipelineMsAccum = @ + metrics.pipelineMs,
               !.diag.diagTotalMsAccum = @ + metrics.totalFrameMs,
               !.diag.diagTotalMsWindow = Append(@, metrics.totalFrameMs),
               !.diag.diagFrameCount = @ + 1]

\* a call of the controller made by the processor, a1 the controller after
\* it: the applier logs the change and applies the level
withControllerLogged(t, a1) ==
    LET t1 == [t EXCEPT !.adaptive = a1]
    IN IF a1.applied # << >>
       THEN applyLevel(diagLog(t1, "quality-change"), getCurrentLevel(a1))
       ELSE t1

\* processFrame on the in-thread branch with its diagnostics calls, the
\* auto-framer update and the report to the controller
frameWithDiagnostics(t, timestamp, out, dur) ==
    LET reported(t4) ==
            IF t4.boot.adaptive
            THEN withControllerLogged(
                     t4, reportFrame(t4.adaptive, t4.main.metrics.totalFrameMs, timestamp))
            ELSE t4
        rendered(t2) ==
            reported(collectDiagTiming(
                [t2 EXCEPT !.pipeline = pipelineAfterFrame(@, t.framer, t2.main),
                           !.main.metrics.totalFrameMs = dur]))
        fresh(t1) ==
            rendered(collectDiagFromMask(
                [t1 EXCEPT !.framer = updateFromMask(@, computeMaskBBox(t1.main.maskPassed))],
                t1.main.maskPassed))
        framed(m1) ==
            IF m1.returned = "null" THEN [t EXCEPT !.main = m1]
            ELSE IF m1.dispatched = "process" THEN fresh([t EXCEPT !.main = m1])
            ELSE rendered([t EXCEPT !.main = m1])
    IN framed(IF t.boot.hasPipeline THEN processFrame(t.main, t.framer, timestamp, out)
              ELSE passThrough(t.main, timestamp))

\* a processor with the adaptive controller and auto-framing after init() on
\* the in-thread path (the accumulators and the log start empty: init() ends
\* with startDiagnostics and one log entry)
InitializedProcessor(level) ==
    LET w == modelInitResolved(
                 initStart(World(BootNew(FALSE, FALSE, TRUE), MainNew, NoPipeline,
                                 onApply(AdaptiveInit)), FALSE))
        t == [ boot |-> w.boot, main |-> w.main, pipeline |-> w.pipeline,
               adaptive |-> w.adaptive, framer |-> FramerInit(TRUE),
               diag |-> NoDiagnostics(level) ]
    IN diagLog(startDiagnostics(log(t, "Initialized")), "init")

TwinsInit ==
    [ off |-> InitializedProcessor("off"), summary |-> InitializedProcessor("summary") ]

\* producer outcomes of the two processors: a call that throws, masks showing
\* nobody, a person cut by the right edge, and a small person in the middle
DiagOutcomes ==
    { [kind |-> "threw", person |-> Null, motion |-> 0],
      [kind |-> "masks", person |-> Null, motion |-> 0],
      [kind |-> "masks", person |-> [minX |-> 64, minY |-> 14, maxX |-> 255, maxY |-> 100],
       motion |-> 200],
      [kind |-> "masks", person |-> [minX |-> 100, minY |-> 40, maxX |-> 150, maxY |-> 90],
       motion |-> 200] }
DiagSteps == {12, 1000}
DiagDurations == {2, 50}

\* both processors get the same frame at the same time, the producer answers
\* both alike and both frames take as long
TwinFrame ==
    /\ twins.off.main.frameCalls < MaxDiagFrames
    /\ twins.off.main.modelRuns < MaxModelRuns
    /\ twins.off.framer.frameCount < MaxFramerUpdates
    /\ \E step \in DiagSteps, out \in DiagOutcomes, dur \in DiagDurations :
          LET timestamp == twins.off.main.timestamp + step
          IN twins' = [ off     |-> frameWithDiagnostics(twins.off, timestamp, out, dur),
                        summary |-> frameWithDiagnostics(twins.summary, timestamp, out, dur) ]

\* both processors get the same setBackgroundMode call
TwinSetBackgroundMode ==
    \E mode \in BackgroundModes :
        LET set(t) == [t EXCEPT !.main = setBackgroundMode(@, mode),
                                !.pipeline = IF mode # "none" /\ t.main.initialized
                                             THEN updateOptions(@, [backgroundMode |-> mode])
                                             ELSE @]
        IN twins' = [off |-> set(twins.off), summary |-> set(twins.summary)]

\* the summary timer of a processor fires
DiagTimerFires ==
    \E which \in {"off", "summary"} :
        /\ twins[which].diag.diagTimer
        /\ twins' = [twins EXCEPT ![which] = emitDiagSummary(@)]

(***************************************************************************)
(* getAccumulatedShift (processor.ts 1302-1328) on the motion vector of the *)
(* last mask: maskVx per zone and maskVy in 1/10000 of the frame, the       *)
(* weighted vx and dx in 1/100000 (the weights are 6, 3 and 1 tenths), dy   *)
(* in 1/10000.                                                              *)
(***************************************************************************)
MaxInterpFrames == 4          \* a run of up to MaxInterpFrames interpolated frames

DeadZone == 30                \* 0.003
MaxShift == 1200              \* 0.12

\* maskVx[0] * 0.6 + maskVx[1] * 0.3 + maskVx[2] * 0.1, times 10
weightedVx(maskVx) == maskVx[1] * 6 + maskVx[2] * 3 + maskVx[3] * 1

\* variant: the shift is capped on the positive side only
shiftOf_cappedAbove(maskVx, maskVy, t) ==
    LET vx == weightedVx(maskVx)
    IN IF Abs(vx) < DeadZone * 10 /\ Abs(maskVy) < DeadZone
       THEN [dx |-> 0, dy |-> 0]
       ELSE [dx |-> Min(MaxShift * 10, vx * t),
             dy |-> Min(MaxShift, maskVy * t)]

\* getAccumulatedShift() for maskVx, maskVy and interpFrameCount = t
shiftOf(maskVx, maskVy, t) ==
    LET vx == weightedVx(maskVx)
    IN IF Abs(vx) < DeadZone * 10 /\ Abs(maskVy) < DeadZone
       THEN [dx |-> 0, dy |-> 0]
       ELSE [dx |-> Max(-MaxShift * 10, Min(MaxShift * 10, vx * t)),
             dy |-> Max(-MaxShift, Min(MaxShift, maskVy * t))]

\* velocities of a zone: none, just inside and just outside the dead zone,
\* and a fast move, to either side
VelocityInputs == {-500, -30, -29, 0, 29, 30, 500}

\* a fresh mask has just set the motion vector and cleared the counter; shift
\* is the value of the last getAccumulatedShift() call
InterpInit ==
    { [ maskVx |-> <<v0, v1, v2>>, maskVy |-> vy, interpFrameCount |-> 0,
        shift |-> [dx |-> 0, dy |-> 0] ] :
      v0 \in VelocityInputs, v1 \in {-30, 0, 500}, v2 \in {-29, 0, 30},
      vy \in VelocityInputs }

\* no run at hand
NoInterp == [ maskVx |-> <<0, 0, 0>>, maskVy |-> 0, interpFrameCount |-> 0,
              shift |-> [dx |-> 0, dy |-> 0] ]

\* an interpolated frame: interpFrameCount++, then
\* pipeline.processInterpolated(frame, this.getAccumulatedShift())
InterpolatedFrame ==
    /\ interp.interpFrameCount < MaxInterpFrames
    /\ interp' = [interp EXCEPT
                     !.interpFrameCount = @ + 1,
                     !.shift = shiftOf(interp.maskVx, interp.maskVy,
                                       interp.interpFrameCount + 1)]

(***************************************************************************)
(* The mask buffers of SegmentationModel (model.ts 132-215, 299-312) on the *)
(* in-thread path of processFrame (processor.ts 673-709): segment() returns *)
(* its lastMask buffer itself, and processFrame hands that same array to    *)
(* pipeline.process, which pads it in place (pipeline.ts 256-261).  Masks   *)
(* are the smallest ones padMaskEdges applies to, 2*PAD+1 pixels a side;    *)
(* produced and producedBefore record what the model produced in the last   *)
(* two calls.                                                               *)
(***************************************************************************)
MaxBufferFrames == 3          \* model frames per run

BufferSide == 2 * PAD + 1
BufferPixels == 0..(BufferSide * BufferSide - 1)

\* masks the model produces: every pixel different, all background, all
\* person, and one person pixel: in a corner, on the top edge, on the left
\* edge, in the centre, in the opposite corner
ProducedMasks ==
    { [i \in BufferPixels |-> i], [i \in BufferPixels |-> 0], [i \in BufferPixels |-> 1] }
    \cup { [i \in BufferPixels |-> IF i = k THEN 1 ELSE 0] :
              k \in {0, PAD, PAD * BufferSide, PAD * BufferSide + PAD,
                     BufferSide * BufferSide - 1} }

\* no buffer allocated yet
NoBuffers ==
    [ allocated       |-> FALSE,
      lastMask        |-> [i \in BufferPixels |-> 0],
      previousMask    |-> [i \in BufferPixels |-> 0],
      hasPreviousMask |-> FALSE,
      motionMap       |-> Null,
      produced        |-> [i \in BufferPixels |-> 0],
      producedBefore  |-> [i \in BufferPixels |-> 0],
      frames          |-> 0 ]

\* segment() with a producer that returned maskData, full-frame: the
\* buffers are allocated on the first call; later calls copy the current
\* buffer into previousMask before lastMask is overwritten
segmentBuffers(b, maskData) ==
    [b EXCEPT !.allocated       = TRUE,
              !.previousMask    = IF b.allocated THEN b.lastMask ELSE @,
              !.hasPreviousMask = IF b.allocated THEN TRUE ELSE @,
              !.lastMask        = maskData,
              !.producedBefore  = b.produced,
              !.produced        = maskData]

\* getMotionMap(): |current - previous| element by element, null without a
\* previous mask
motionBuffer(b) ==
    IF ~b.allocated \/ ~b.hasPreviousMask THEN Null
    ELSE [i \in BufferPixels |-> Abs(b.lastMask[i] - b.previousMask[i])]

\* pipeline.process(frame, mask, motionMap) with mask the adapter's lastMask:
\* padMaskEdges writes into that array
processMask(b) ==
    [b EXCEPT !.lastMask = padMaskEdges(@, BufferSide, BufferSide)]

\* a model frame of the in-thread path: segment, getMotionMap, process
InThreadModelFrame ==
    /\ buffers.frames < MaxBufferFrames
    /\ \E maskData \in ProducedMasks :
          LET segmented(b) == [b EXCEPT !.motionMap = motionBuffer(b), !.frames = @ + 1]
          IN buffers' = processMask(segmented(segmentBuffers(buffers, maskData)))

(***************************************************************************)
(* One processor with diagnostics over its lifetime: frames, ticks of the   *)
(* summary timer, setDiagnosticsLevel (processor.ts 1059-1065) and init()   *)
(* called again (processor.ts 459-578), which ends with startDiagnostics    *)
(* and one log entry.                                                       *)
(***************************************************************************)
MaxDiagEvents == 3            \* setDiagnosticsLevel is called while fewer events were emitted

DiagnosticsLevels == {"off", "summary"}

\* where the processor is left alone: diagnostics off, nothing emitted
NoDiagnosed == InitializedProcessor("off")

setDiagnosticsLevel(t, level) ==
    LET t1 == [t EXCEPT !.diag.diagLevel = level]
    IN IF t1.main.initialized THEN startDiagnostics(t1) ELSE t1

\* the end of init(), after the last await
initEnd(t) == diagLog(startDiagnostics(log(t, "Initialized")), "init")

DiagFrame ==
    /\ diagnosed.main.frameCalls < MaxDiagFrames
    /\ diagnosed.main.modelRuns < MaxModelRuns
    /\ diagnosed.framer.frameCount < MaxFramerUpdates
    /\ \E out \in LifecycleOutcomes, dur \in LifecycleDurations :
          diagnosed' = frameWithDiagnostics(diagnosed, diagnosed.main.timestamp + 1000, out, dur)

\* the interval of the summary timer elapses
DiagIntervalElapses ==
    /\ diagnosed.diag.diagTimer
    /\ diagnosed' = emitDiagSummary(diagnosed)

SetDiagnosticsLevel ==
    /\ Len(diagnosed.diag.emitted) < MaxDiagEvents
    /\ \E level \in DiagnosticsLevels :
          diagnosed' = setDiagnosticsLevel(diagnosed, level)

\* init() is called again, up to its await of model.init()
DiagInitCall ==
    /\ diagnosed.boot.phase = "none"
    /\ diagnosed.boot.inits < MaxInits
    /\ diagnosed' = initStart(diagnosed, FALSE)

\* model.init() resolves and init() runs to its end
DiagModelInitResolves ==
    /\ diagnosed.boot.phase = "modelInit"
    /\ diagnosed' = initEnd(modelInitResolved(diagnosed))

(***************************************************************************)
(* processFrame with its frame counters (processor.ts 250-262, 594-595,     *)
(* 659, 719, 1379-1390) and the upload of the camera frame that opens       *)
(* process() and processInterpolated() (pipeline.ts 252-254, 419-421).      *)
(* No statement of processFrame or of the pipeline is inside a try.  What   *)
(* texImage2D does with a frame it cannot take depends on the source: it    *)
(* throws (a closed VideoFrame, a detached ImageBitmap) or it records a GL  *)
(* error, uploads nothing and returns (a zero-sized canvas).                *)
(***************************************************************************)
UploadOutcomes == {"uploaded", "throws", "glError"}
HotLoopSteps   == {12, 1000}

\* the fields of a processor and its frame counters; upload records what the
\* last frame's texImage2D did
HotLoopInit(fps, mode) ==
    MainInit(fps, mode, TRUE)
    @@ [ skippedFrames |-> 0, fpsCounter |-> 0, fpsTimestamp |-> 0,
         metricsSkippedFrames |-> 0, upload |-> "none" ]

\* updateFpsCounter(timestamp): once a second the count of skipped frames
\* moves to metrics.skippedFrames, which the summary event shows as
\* droppedFrames
updateFpsCounter(p, timestamp) ==
    IF timestamp - p.fpsTimestamp >= 1000
    THEN [p EXCEPT !.metricsSkippedFrames = p.skippedFrames,
                   !.fpsCounter = 0,
                   !.skippedFrames = 0,
                   !.fpsTimestamp = timestamp]
    ELSE [p EXCEPT !.fpsCounter = @ + 1]

\* processFrame up to the pipeline call: the counters, the scheduling and the
\* model run; skippedFrames counts the frames that do not run the model
beforeDispatch(p, f, timestamp, out) ==
    LET counted(m1) ==
            IF m1.returned = "null" THEN m1
            ELSE [updateFpsCounter(m1, timestamp) EXCEPT
                     !.skippedFrames = IF m1.segmented THEN @ ELSE @ + 1]
    IN counted(processFrame(p, f, timestamp, out))

\* the exception of texImage2D leaves processFrame: nothing after the
\* pipeline call has run
thrownAtUpload(p, m1) ==
    [m1 EXCEPT !.returned = "threw",
               !.frameCount = p.frameCount,
               !.reports = p.reports,
               !.metrics = [p.metrics EXCEPT
                               !.modelInferenceMs = IF m1.segmented THEN ModelMs ELSE 0]]

\* processFrame with a camera frame whose upload has the given outcome
processFrameUploading(p, f, timestamp, out, outcome) ==
    LET uploading(m1) ==
            IF m1.returned = "null" THEN [m1 EXCEPT !.upload = "none"]
            ELSE IF outcome = "throws"
            THEN [thrownAtUpload(p, m1) EXCEPT !.upload = outcome]
            ELSE [m1 EXCEPT !.upload = outcome]
    IN uploading(beforeDispatch(p, f, timestamp, out))

\* the pipeline after that frame: a throwing upload ends process() before
\* its first draw call
pipelineAfterUpload(pl, f, p1) ==
    IF p1.upload = "throws" THEN setCropRect(pl, autoFrameCropRect(f))
    ELSE pipelineAfterFrame(pl, f, p1)

HotLoopFrame ==
    /\ main.frameCalls < MaxFrameCalls
    /\ main.modelRuns < MaxModelRuns
    /\ framer.frameCount < MaxFramerUpdates
    /\ \E step \in HotLoopSteps, out \in LifecycleOutcomes, outcome \in UploadOutcomes :
          /\ main' = processFrameUploading(main, framer, main.timestamp + step, out, outcome)
          /\ framer' = IF main'.dispatched = "process"
                       THEN updateFromMask(framer, computeMaskBBox(main'.maskPassed))
                       ELSE framer
          /\ pipeline' = pipelineAfterUpload(pipeline, framer, main')

vars == <<adaptive, now, processor, frameClock, bitmapPending, toWorker, fromWorker,
         pipeline, framer, main, boot, adapters, upload, twins, interp, buffers, diagnosed>>

\* no frame has been processed and nothing is in flight
ChannelsEmpty ==
    /\ frameClock = 0
    /\ bitmapPending = << >>
    /\ toWorker = << >>
    /\ fromWorker = << >>

\* for the specifications of the other parts
MainIdle      == MainInit(10, "blur", TRUE)
ProcessorIdle == CHOOSE p \in ProcessorInit : p.modelInterval.den = 10
PipelineIdle  == CHOOSE p \in PipelineInit :
                     p.opts.lightWrap /\ p.opts.backgroundMode = "blur"

Init ==
    /\ diagnosed = NoDiagnosed
    /\ buffers = NoBuffers
    /\ interp = NoInterp
    /\ twins = TwinsInit
    /\ upload = NoUpload
    /\ adapters = AdaptersInit
    /\ boot = BootInThread
    /\ adaptive = AdaptiveInit
    /\ now = 0
    /\ processor = ProcessorIdle
    /\ ChannelsEmpty
    /\ pipeline = PipelineIdle
    /\ framer = FramerInit(FALSE)
    /\ main = MainIdle

NextAdaptive ==
    \/ ReportFrame
    \/ Lock
    \/ Unlock
    \/ SetTier
    \/ Reset
    \/ CalibrateFromBenchmark

\* The controller on its own, with no applier registered, driven through its
\* public methods.
SpecAdaptive == Init /\ [][NextAdaptive /\ UNCHANGED notAdaptive]_vars

NextControl ==
    \/ OnApply
    \/ ReportExtremeFrame
    \/ Lock
    \/ Unlock
    \/ SetTier
    \/ Reset
    \/ CalibrateFromBenchmark

\* The controller with appliers registered before the first frame.
SpecControl == Init /\ [][NextControl /\ UNCHANGED notAdaptive]_vars

\* A new controller forced to the minimum tier with setTier(4), then fed frames.
InitUpgrade ==
    /\ diagnosed = NoDiagnosed
    /\ buffers = NoBuffers
    /\ interp = NoInterp
    /\ twins = TwinsInit
    /\ upload = NoUpload
    /\ adapters = AdaptersInit
    /\ boot = BootInThread
    /\ adaptive = [setTier(AdaptiveInit, NumTiers - 1) EXCEPT !.tier0 = NumTiers - 1]
    /\ now = 0
    /\ processor = ProcessorIdle
    /\ ChannelsEmpty
    /\ pipeline = PipelineIdle
    /\ framer = FramerInit(FALSE)
    /\ main = MainIdle

NextUpgrade ==
    \/ ReportFrame
    \/ OnApply

SpecUpgrade == InitUpgrade /\ [][NextUpgrade /\ UNCHANGED notAdaptive]_vars

\* A new controller put at a tier above the minimum, then fed 100 ms frames.
InitSlow ==
    /\ diagnosed = NoDiagnosed
    /\ buffers = NoBuffers
    /\ interp = NoInterp
    /\ twins = TwinsInit
    /\ upload = NoUpload
    /\ adapters = AdaptersInit
    /\ boot = BootInThread
    /\ adaptive \in {[setTier(AdaptiveInit, k) EXCEPT !.tier0 = k] : k \in 0..(NumTiers - 2)}
    /\ now = 0
    /\ processor = ProcessorIdle
    /\ ChannelsEmpty
    /\ pipeline = PipelineIdle
    /\ framer = FramerInit(FALSE)
    /\ main = MainIdle

NextSlow ==
    \/ ReportSlowFrame
    \/ OnApply

SpecSlow == InitSlow /\ [][NextSlow /\ UNCHANGED notAdaptive]_vars

\* the frame source keeps delivering frames
SpecSlowFair == SpecSlow /\ WF_vars(ReportSlowFrame /\ UNCHANGED notAdaptive)

InitWorker ==
    /\ diagnosed = NoDiagnosed
    /\ buffers = NoBuffers
    /\ interp = NoInterp
    /\ twins = TwinsInit
    /\ upload = NoUpload
    /\ adapters = AdaptersInit
    /\ boot = BootWorkerReady
    /\ adaptive = AdaptiveInit
    /\ now = 0
    /\ processor \in ProcessorInit
    /\ ChannelsEmpty
    /\ pipeline = PipelineIdle
    /\ framer = FramerInit(FALSE)
    /\ main = MainIdle

NextWorker ==
    \/ ProcessFrame
    \/ BitmapReady
    \/ BitmapFailed
    \/ WorkerSegment
    \/ OnWorkerMessage

\* The worker path of the processor: frames arrive on the main thread while
\* the bitmap promises, the worker and the message channels make progress.
SpecWorker == InitWorker /\ [][NextWorker /\ UNCHANGED notWorker]_vars

InitPipeline ==
    /\ diagnosed = NoDiagnosed
    /\ buffers = NoBuffers
    /\ interp = NoInterp
    /\ twins = TwinsInit
    /\ upload = NoUpload
    /\ adapters = AdaptersInit
    /\ boot = BootInThread
    /\ adaptive = AdaptiveInit
    /\ now = 0
    /\ processor = ProcessorIdle
    /\ ChannelsEmpty
    /\ pipeline \in PipelineInit
    /\ framer = FramerInit(FALSE)
    /\ main = MainIdle

NextPipeline ==
    \/ Process
    \/ ProcessInterpolated
    \/ SetCropRect
    \/ UpdateOptions

\* One pipeline driven through its public methods.
SpecPipeline == InitPipeline /\ [][NextPipeline /\ UNCHANGED notPipeline]_vars

\* an auto-framer constructed with enabled: true or left at the default
InitFramer ==
    /\ diagnosed = NoDiagnosed
    /\ buffers = NoBuffers
    /\ interp = NoInterp
    /\ twins = TwinsInit
    /\ upload = NoUpload
    /\ adapters = AdaptersInit
    /\ boot = BootInThread
    /\ adaptive = AdaptiveInit
    /\ now = 0
    /\ processor = ProcessorIdle
    /\ ChannelsEmpty
    /\ pipeline = PipelineIdle
    /\ framer \in {FramerInit(enabled) : enabled \in BOOLEAN}
    /\ main = MainIdle

NextFramer ==
    \/ UpdateFromMask
    \/ UpdateFromFace
    \/ ResetFramer
    \/ SetAutoFrame

\* One auto-framer driven through its public methods.
SpecFramer == InitFramer /\ [][NextFramer /\ UNCHANGED notFramer]_vars

\* a processor initialised without a worker, auto-framing left disabled
InitMain ==
    /\ diagnosed = NoDiagnosed
    /\ buffers = NoBuffers
    /\ interp = NoInterp
    /\ twins = TwinsInit
    /\ upload = NoUpload
    /\ adapters = AdaptersInit
    /\ boot = BootInThread
    /\ adaptive = AdaptiveInit
    /\ now = 0
    /\ processor = ProcessorIdle
    /\ ChannelsEmpty
    /\ pipeline = PipelineIdle
    /\ framer \in {FramerInit(enabled) : enabled \in BOOLEAN}
    /\ main \in {MainInit(fps, mode, ready) :
                    fps \in ModelFpsOpts, mode \in BackgroundModes, ready \in BOOLEAN}

NextMain ==
    \/ ProcessFrameInThread
    \/ SetBackgroundMode
    \/ ModelInitDone
    \/ Destroy

\* The in-thread path of the processor: frames, mode changes and teardown.
SpecMain == InitMain /\ [][NextMain /\ UNCHANGED notMain]_vars

\* a processor after its constructor, with or without a worker, on Safari or
\* not, with the adaptive controller and its applier or without
InitLifecycle ==
    /\ diagnosed = NoDiagnosed
    /\ buffers = NoBuffers
    /\ interp = NoInterp
    /\ twins = TwinsInit
    /\ upload = NoUpload
    /\ adapters = AdaptersInit
    /\ boot \in {BootNew(useWorker, isSafari, adaptiveOn) :
                    useWorker \in BOOLEAN, isSafari \in BOOLEAN, adaptiveOn \in BOOLEAN}
    /\ adaptive = onApply(AdaptiveInit)
    /\ now = 0
    /\ processor = ProcessorIdle
    /\ ChannelsEmpty
    /\ pipeline = NoPipeline
    /\ framer = FramerInit(FALSE)
    /\ main = MainNew

NextLifecycle ==
    \/ InitCall
    \/ ModelInitResolves
    \/ ModelInitRejects
    \/ WorkerReady
    \/ WorkerError
    \/ WorkerTimeout
    \/ DestroyCall
    \/ LifecycleFrame

\* init(), re-init and destroy() of one processor, with the frames of its
\* in-thread path reported to the controller.
SpecLifecycle == InitLifecycle /\ [][NextLifecycle /\ UNCHANGED notLifecycle]_vars

\* the processor init() leaves on either path: processFrame takes the worker
\* branch when a worker client exists, the in-thread branch otherwise
InitPaths == InitWorker \/ InitMain

NextPaths ==
    \/ boot.workerClient = "ready" /\ NextWorker /\ UNCHANGED notWorker
    \/ boot.workerClient = "null" /\ NextMain /\ UNCHANGED notMain

\* Frames on the worker path and on the in-thread path.
SpecPaths == InitPaths /\ [][NextPaths]_vars

InitAdapters ==
    /\ diagnosed = NoDiagnosed
    /\ buffers = NoBuffers
    /\ interp = NoInterp
    /\ twins = TwinsInit
    /\ upload = NoUpload
    /\ adapters = AdaptersInit
    /\ boot = BootInThread
    /\ adaptive = AdaptiveInit
    /\ now = 0
    /\ processor = ProcessorIdle
    /\ ChannelsEmpty
    /\ pipeline = PipelineIdle
    /\ framer = FramerInit(FALSE)
    /\ main = MainIdle

NextAdapters ==
    \/ SegmentBoth

\* The in-thread adapter and the worker fed the same crops and producer
\* outcomes.
SpecAdapters == InitAdapters /\ [][NextAdapters /\ UNCHANGED notAdapters]_vars

InitUpload ==
    /\ diagnosed = NoDiagnosed
    /\ buffers = NoBuffers
    /\ interp = NoInterp
    /\ twins = TwinsInit
    /\ upload \in UploadInit
    /\ boot = BootInThread
    /\ adapters = AdaptersInit
    /\ adaptive = AdaptiveInit
    /\ now = 0
    /\ processor = ProcessorIdle
    /\ ChannelsEmpty
    /\ pipeline = PipelineIdle
    /\ framer = FramerInit(FALSE)
    /\ main = MainIdle

NextUpload ==
    \/ Upload

\* process() called with a mask of any size and content, up to the upload.
SpecUpload == InitUpload /\ [][NextUpload /\ UNCHANGED notUpload]_vars

\* two initialised processors, diagnostics 'off' and 'summary'
InitTwins ==
    /\ diagnosed = NoDiagnosed
    /\ buffers = NoBuffers
    /\ interp = NoInterp
    /\ twins = TwinsInit
    /\ upload = NoUpload
    /\ adapters = AdaptersInit
    /\ boot = BootInThread
    /\ adaptive = AdaptiveInit
    /\ now = 0
    /\ processor = ProcessorIdle
    /\ ChannelsEmpty
    /\ pipeline = PipelineIdle
    /\ framer = FramerInit(FALSE)
    /\ main = MainNew

NextTwins ==
    \/ TwinFrame
    \/ TwinSetBackgroundMode
    \/ DiagTimerFires

\* Two processors in lockstep: the same calls, frames, timestamps, producer
\* results and frame durations, and the summary timer of each.
SpecTwins == InitTwins /\ [][NextTwins /\ UNCHANGED notTwins]_vars

\* a new auto-framer, enabled or not, continuous or not
InitJoin ==
    /\ diagnosed = NoDiagnosed
    /\ buffers = NoBuffers
    /\ framer \in {FramerWith(enabled, continuous) :
                      enabled \in BOOLEAN, continuous \in BOOLEAN}
    /\ interp = NoInterp
    /\ twins = TwinsInit
    /\ upload = NoUpload
    /\ adapters = AdaptersInit
    /\ boot = BootInThread
    /\ adaptive = AdaptiveInit
    /\ now = 0
    /\ processor = ProcessorIdle
    /\ ChannelsEmpty
    /\ pipeline = PipelineIdle
    /\ main = MainIdle

NextJoin ==
    \/ JoinUpdateFromMask
    \/ ResetFramer
    \/ SetAutoFrame

\* One auto-framer fed with masks over more than 30 detections.
SpecJoin == InitJoin /\ [][NextJoin /\ UNCHANGED notFramer]_vars

\* a run of interpolated frames after a fresh mask, for every motion vector
InitInterp ==
    /\ diagnosed = NoDiagnosed
    /\ buffers = NoBuffers
    /\ interp \in InterpInit
    /\ twins = TwinsInit
    /\ upload = NoUpload
    /\ adapters = AdaptersInit
    /\ boot = BootInThread
    /\ adaptive = AdaptiveInit
    /\ now = 0
    /\ processor = ProcessorIdle
    /\ ChannelsEmpty
    /\ pipeline = PipelineIdle
    /\ framer = FramerInit(FALSE)
    /\ main = MainNew

NextInterp == InterpolatedFrame

\* The shift of the interpolated frames that follow a fresh mask.
SpecInterp == InitInterp /\ [][NextInterp /\ UNCHANGED notInterp]_vars

InitHotLoop ==
    /\ diagnosed = NoDiagnosed
    /\ buffers = NoBuffers
    /\ interp = NoInterp
    /\ twins = TwinsInit
    /\ upload = NoUpload
    /\ adapters = AdaptersInit
    /\ boot = BootInThread
    /\ adaptive = AdaptiveInit
    /\ now = 0
    /\ processor = ProcessorIdle
    /\ ChannelsEmpty
    /\ pipeline = PipelineIdle
    /\ framer \in {FramerInit(enabled) : enabled \in BOOLEAN}
    /\ main \in {HotLoopInit(fps, mode) : fps \in ModelFpsOpts, mode \in BackgroundModes}

NextHotLoop ==
    \/ HotLoopFrame
    \/ SetBackgroundMode

\* Frames of the in-thread path whose camera upload succeeds or fails.
SpecHotLoop == InitHotLoop /\ [][NextHotLoop /\ UNCHANGED notMain]_vars

InitDiagnosed ==
    /\ diagnosed = InitializedProcessor("summary")
    /\ buffers = NoBuffers
    /\ interp = NoInterp
    /\ twins = TwinsInit
    /\ upload = NoUpload
    /\ adapters = AdaptersInit
    /\ boot = BootInThread
    /\ adaptive = AdaptiveInit
    /\ now = 0
    /\ processor = ProcessorIdle
    /\ ChannelsEmpty
    /\ pipeline = PipelineIdle
    /\ framer = FramerInit(FALSE)
    /\ main = MainIdle

NextDiagnosed ==
    \/ DiagFrame
    \/ DiagIntervalElapses
    \/ SetDiagnosticsLevel
    \/ DiagInitCall
    \/ DiagModelInitResolves

\* A processor initialised with diagnostics 'summary': frames, timer ticks,
\* level changes and re-init in any order.
SpecDiagnosed == InitDiagnosed /\ [][NextDiagnosed /\ UNCHANGED notDiagnosed]_vars

InitBackground ==
    /\ diagnosed = NoDiagnosed
    /\ buffers = NoBuffers
    /\ interp = NoInterp
    /\ twins = TwinsInit
    /\ upload = NoUpload
    /\ adapters = AdaptersInit
    /\ boot = BootNew(FALSE, FALSE, FALSE)
    /\ adaptive = onApply(AdaptiveInit)
    /\ now = 0
    /\ processor = ProcessorIdle
    /\ ChannelsEmpty
    /\ pipeline = NoPipeline
    /\ framer = FramerInit(FALSE)
    /\ main = MainNew

NextBackground ==
    \/ InitCall
    \/ ModelInitResolves
    \/ SetBackgroundModeCall
    \/ SetBackgroundColor
    \/ SetBackgroundImage
    \/ LifecycleFrame

\* The background setters called at any time before, during and after init()
\* and re-init of an in-thread processor, with frames in between.
SpecBackground == InitBackground /\ [][NextBackground /\ UNCHANGED notLifecycle]_vars

InitBuffers ==
    /\ diagnosed = NoDiagnosed
    /\ buffers = NoBuffers
    /\ interp = NoInterp
    /\ twins = TwinsInit
    /\ upload = NoUpload
    /\ adapters = AdaptersInit
    /\ boot = BootInThread
    /\ adaptive = AdaptiveInit
    /\ now = 0
    /\ processor = ProcessorIdle
    /\ ChannelsEmpty
    /\ pipeline = PipelineIdle
    /\ framer = FramerInit(FALSE)
    /\ main = MainIdle

NextBuffers ==
    \/ InThreadModelFrame

\* Model frames of the in-thread path, one produced mask after the other.
SpecBuffers == InitBuffers /\ [][NextBuffers /\ UNCHANGED notBuffers]_vars

(***************************************************************************)
(* Properties                                                              *)
(***************************************************************************)

\* a step that is a reportFrame call, the frame time it reported, and whether
\* the frame closed a window
IsReportFrameStep == adaptive'.totalFrames = adaptive.totalFrames + 1
ReportedTime      == adaptive'.frameTimes[adaptive.windowIndex + 1]
ClosesWindow      == adaptive'.totalFrames % WindowSize = 0
IsProcessFrameStep == frameClock' # frameClock

\* the window held by the ring: mean and P95 as section 4.F states them
WindowSum(f)        == SumFirst(f, WindowSize)
WindowOverBudget(f) == \/ WindowSum(f) > TargetFrameTimeMs * WindowSize
                       \/ SortedAt(f, P95Index(WindowSize)) > CriticalFrameTimeMs
WindowWellUnder(f)  == 10 * WindowSum(f) < 6 * TargetFrameTimeMs * WindowSize

\* the last k reported frame times all exceed the critical threshold
LastFramesCritical(s, k) ==
    /\ s.totalFrames >= k
    /\ \A j \in 1..k :
          s.frameTimes[((s.windowIndex - j + WindowSize) % WindowSize) + 1]
              > CriticalFrameTimeMs

\* every registered applier was handed the tier of s, once
AllApplied(s) ==
    s.applied = [i \in 1..s.applyCallbacks |-> [cb |-> i, tier |-> s.currentTier]]

\* requests sent and neither answered nor dropped
InFlight == Len(bitmapPending) + Len(toWorker)

\* C1: in the worker path processFrame dispatches requestSegment only when no
\* earlier request is still in flight (at most one request in flight).
C1_OneRequestInFlight ==
    [][(IsProcessFrameStep /\ processor'.requested) => InFlight = 0]_vars

\* C2: mask replies are consumed in the order their requests were issued, and
\* no reply is overwritten before processFrame has consumed it.
C2_RepliesConsumedInOrderOnce ==
    /\ \A i, j \in DOMAIN processor.consumed :
          i < j => processor.consumed[i] < processor.consumed[j]
    /\ processor.overwritten = {}

C4_LockedTierFrozen ==
    [][(IsReportFrameStep /\ adaptive.locked)
       => /\ adaptive'.currentTier = adaptive.currentTier
          /\ adaptive'.applied = << >>]_vars

WindowEvaluated ==
    /\ IsReportFrameStep
    /\ ClosesWindow
    /\ ~adaptive.locked
    /\ now' - adaptive.lastAdjustmentTime >= CooldownMs
    /\ ~(ReportedTime > CriticalFrameTimeMs
           /\ adaptive.criticalFrameCount = CriticalRun - 1)

FastFrameValues == {5}
OnlyFastFrames(s) == s.uniform \in {0} \cup FastFrameValues

\* an upgrade needs upgradeThreshold consecutive evaluated windows with a mean
\* below 0.6 * target: the counter grows by one on such a window only, a bad
\* or stable window clears it, and the upgrade clears it
UpgradeNeedsGoodRun ==
    /\ adaptive'.called = "upgrade"
       => /\ IsReportFrameStep /\ ClosesWindow
          /\ adaptive'.path = "good"
          /\ WindowWellUnder(adaptive'.frameTimes)
          /\ adaptive.consecutiveGoodWindows = UpgradeThreshold - 1
          /\ adaptive'.consecutiveGoodWindows = 0
    /\ adaptive'.consecutiveGoodWindows > adaptive.consecutiveGoodWindows
       => /\ IsReportFrameStep /\ ClosesWindow
          /\ adaptive'.path = "good"
          /\ WindowWellUnder(adaptive'.frameTimes)
          /\ adaptive'.consecutiveGoodWindows = adaptive.consecutiveGoodWindows + 1
    /\ adaptive'.path \in {"bad", "stable"}
       => adaptive'.consecutiveGoodWindows = 0
    /\ adaptive'.currentTier < adaptive.currentTier
       => adaptive'.called = "upgrade"

C9_SlowFramesReachMinimum ==
    /\ [](adaptive.totalFrames >= 2 * WindowSize
           => adaptive.currentTier > adaptive.tier0)
    /\ <>(adaptive.currentTier = NumTiers - 1)
    /\ [][adaptive.currentTier = NumTiers - 1
          => /\ adaptive'.currentTier = NumTiers - 1
             /\ adaptive'.applied = << >>]_vars

\* a slow frame reported at the minimum tier: the downgrade saturates
C9_Witness ==
    /\ adaptive.uniform \in SlowFrameValues
    /\ adaptive.currentTier = NumTiers - 1
    /\ adaptive.called = "downgrade"
    /\ adaptive.applied = << >>
    /\ adaptive.applyCallbacks > 0

\* C10: whenever currentTier changes, every registered applier is invoked with
\* the new tier within the call; a saturated downgrade, a saturated upgrade and
\* setTier to the current tier invoke no applier.
C10_AppliersSeeEveryChange ==
    [][/\ adaptive'.currentTier # adaptive.currentTier => AllApplied(adaptive')
       /\ (adaptive'.called = "downgrade" /\ adaptive.currentTier = NumTiers - 1)
          => adaptive'.applied = << >>
       /\ (adaptive'.called = "upgrade" /\ adaptive.currentTier = 0)
          => adaptive'.applied = << >>
       /\ (adaptive'.path = "setTier" /\ adaptive'.currentTier = adaptive.currentTier)
          => adaptive'.applied = << >>
      ]_vars

\* an upgrade that reached the registered applier
C10_Witness ==
    /\ adaptive.called = "upgrade"
    /\ adaptive.applyCallbacks > 0
    /\ AllApplied(adaptive)

(***************************************************************************)
(* Properties of the pipeline                                              *)
(***************************************************************************)

\* a step that is a process() or a processInterpolated() call
IsProcessCall      == pipeline'.calls = pipeline.calls + 1 /\ pipeline'.call = "process"
IsInterpolatedCall == pipeline'.calls = pipeline.calls + 1
                      /\ pipeline'.call = "processInterpolated"

\* the draw calls of a dispatch that render into fbo
PassesInto(passes, fbo) == {i \in DOMAIN passes : passes[i].target = fbo}
PassesOf(passes, prog)  == {i \in DOMAIN passes : passes[i].prog = prog}

\* C17: after process() previousMaskFBO holds that call's temporal output,
\* copied right after the temporal stage and written by nothing else; a
\* processInterpolated() call, shifted or not, leaves previousMaskFBO alone.
C17_PreviousMaskIsLastTemporal ==
    [][/\ IsProcessCall =>
            /\ pipeline'.previousMaskFBO = [temporalOf |-> pipeline'.processCalls]
            /\ pipeline'.previousMaskFBO = pipeline'.temporalFBO
            /\ pipeline'.passes[1].prog = "temporal"
            /\ pipeline'.passes[1].target = "temporalFBO"
            /\ PassesInto(pipeline'.passes, "previousMaskFBO") = {2}
            /\ pipeline'.passes[2] = Pass("blit", "previousMaskFBO", <<"temporalFBO">>, << >>)
       /\ IsInterpolatedCall =>
            /\ pipeline'.previousMaskFBO = pipeline.previousMaskFBO
            /\ PassesInto(pipeline'.passes, "previousMaskFBO") = {}
      ]_vars

\* two interpolated frames after one process(), the last one with a shift
C17_Witness ==
    /\ pipeline.call = "processInterpolated"
    /\ pipeline.calls = 3
    /\ pipeline.processCalls = 1
    /\ PassesOf(pipeline.passes, "shift") = {1}
    /\ pipeline.shiftFBO = [shifted |-> [temporalOf |-> 1], by |-> pipeline.passes[1].uniforms[1]]
    /\ pipeline.previousMaskFBO = [temporalOf |-> 1]

\* C18: the temporal stage of process() uses rates 1 and 1 while no process()
\* call has completed on the pipeline and the configured rates afterwards;
\* processInterpolated() leaves the first-frame flag as it is.
C18_FirstFrameRates ==
    [][/\ IsProcessCall =>
            /\ pipeline'.passes[1].prog = "temporal"
            /\ pipeline'.passes[1].uniforms =
                   IF pipeline.processCalls = 0
                   THEN <<100, 100>>
                   ELSE <<pipeline.opts.appearRate, pipeline.opts.disappearRate>>
            /\ ~pipeline'.isFirstFrame
       /\ IsInterpolatedCall => pipeline'.isFirstFrame = pipeline.isFirstFrame
      ]_vars

\* a later process() call, after an interpolated frame, run at the configured rates
C18_Witness ==
    /\ pipeline.call = "process"
    /\ pipeline.processCalls = 2
    /\ pipeline.calls = 3
    /\ pipeline.passes[1].uniforms = <<pipeline.opts.appearRate, pipeline.opts.disappearRate>>
    /\ ~pipeline.isFirstFrame

\* the final stage of a dispatch
FinalStage(p) == IF p.opts.lightWrap THEN "lightWrap" ELSE "composite"

\* C19: a dispatch with no crop rect runs no pre-crop and no crop pass and its
\* final stage draws to the output; with a crop rect the final stage draws
\* into preCropFBO and the crop pass runs exactly once, last, with light wrap
\* on or off; setCropRect allocates and frees nothing.
C19_CropPassOnlyWithCropRect ==
    [][/\ (IsProcessCall \/ IsInterpolatedCall) =>
            LET ps == pipeline'.passes
                n  == Len(ps)
            IN IF pipeline.cropRect = Null
               THEN /\ PassesInto(ps, "preCropFBO") = {}
                    /\ PassesOf(ps, "crop") = {}
                    /\ PassesInto(ps, "screen") = {n}
                    /\ ps[n].prog = FinalStage(pipeline)
               ELSE /\ PassesInto(ps, "preCropFBO") = {n - 1}
                    /\ ps[n - 1].prog = FinalStage(pipeline)
                    /\ PassesOf(ps, "crop") = {n}
                    /\ PassesInto(ps, "screen") = {n}
                    /\ ps[n].inputs = <<"preCropFBO">>
                    /\ ps[n].uniforms = <<pipeline.cropRect>>
       /\ pipeline'.call = "setCropRect" => pipeline'.allocated = pipeline.allocated
      ]_vars

\* a cropped dispatch with light wrap on: composite to compositeFBO, light wrap
\* to preCropFBO, then the crop
C19_Witness ==
    /\ pipeline.call \in {"process", "processInterpolated"}
    /\ pipeline.cropRect # Null
    /\ pipeline.opts.lightWrap
    /\ PassesOf(pipeline.passes, "crop") = {Len(pipeline.passes)}
    /\ PassesInto(pipeline.passes, "compositeFBO") # {}

\* a chain with every read of temporalFBO redirected to previousMaskFBO, which
\* holds the same mask after process()
OnStoredMask(passes) ==
    [i \in DOMAIN passes |->
        [passes[i] EXCEPT !.inputs =
            [j \in DOMAIN passes[i].inputs |->
                IF passes[i].inputs[j] = "temporalFBO"
                THEN "previousMaskFBO" ELSE passes[i].inputs[j]]]]

\* C20: for every setting of the options and the crop, processInterpolated
\* with shift (0,0) issues the draw calls process issues after its temporal
\* stage, in the same order and with the same inputs, from the stored mask.
C20_InterpolatedChainIsProcessTail ==
    pipeline.temporalFBO = pipeline.previousMaskFBO
        => interpolatedPasses(pipeline, [dx |-> 0, dy |-> 0])
               = OnStoredMask(processTail(pipeline))

(***************************************************************************)
(* Properties of the auto-framer                                           *)
(***************************************************************************)

\* 1/maxZoom <= width = height <= 1/minZoom, inside the unit square
CropWithinZoomRange(f) ==
    LET c == f.currentCrop
    IN /\ c.width = c.height
       /\ c.width >= ((FrameUnit * FrameUnit) \div f.config.maxZoom) * Quarters
       /\ c.width <= ((FrameUnit * FrameUnit) \div f.config.minZoom) * Quarters
       /\ c.x >= 0 /\ c.y >= 0
       /\ c.x + c.width <= CropUnit
       /\ c.y + c.height <= CropUnit

\* C14: in every state of an enabled auto-framer, from construction on and
\* after reset(), the smoothed crop is square, between 1/maxZoom and 1/minZoom
\* wide, and inside the frame.
C14_CropAlwaysWithinZoomRange ==
    framer.config.enabled => CropWithinZoomRange(framer)

(***************************************************************************)
(* Properties of the in-thread path                                        *)
(***************************************************************************)

\* a step that is a processFrame call of the in-thread processor
IsFrameCall == main'.frameCalls = main.frameCalls + 1

\* C11: every mask handed to pipeline.process is in full-frame space, also on
\* frames whose producer call failed or found no segmenter.
C11_PipelineMaskIsFullFrame ==
    main.dispatched = "process" => main.maskPassed.space = "full"

\* what segment() keeps besides the crop of the last call
StoredByAdapter(m) ==
    <<m.lastMask, m.fullMask, m.hasPreviousMask, m.cachedBBox, m.firstCentroid, m.velocity>>

\* C12: when the producer throws, segment() leaves the stored masks, the cached
\* bbox, centroids and velocities as they were, and the frame is rendered by
\* processInterpolated: the ROI, the auto-framer and the interpolation counter
\* are not updated as for a fresh mask.
C12_FailedCallRunsAsInterpolation ==
    [][(IsFrameCall /\ main'.outcome = "threw") =>
          /\ StoredByAdapter(main'.model) = StoredByAdapter(main.model)
          /\ main'.dispatched = "processInterpolated"
          /\ main'.personCropRegion = main.personCropRegion
          /\ main'.interpFrameCount = main.interpFrameCount + 1
          /\ framer' = framer
      ]_vars

\* x >= 0, y >= 0, w >= 0, h >= 0, x + w <= 1, y + h <= 1
InsideFrame(r) ==
    /\ r.x >= 0 /\ r.y >= 0 /\ r.w >= 0 /\ r.h >= 0
    /\ r.x + r.w <= RoiUnit
    /\ r.y + r.h <= RoiUnit

\* C13: the ROI crop region, whenever non-null, lies inside the frame.
C13_RoiInsideFrame ==
    main.personCropRegion # Null => InsideFrame(main.personCropRegion)

\* timestamp - lastModelRun >= max(16, baseInterval / min(4, 1 + 20 motionMag)),
\* with baseInterval = num / den ms and motionMag in 1/1000
EffectiveIntervalElapsed(p, timestamp) ==
    LET elapsed == timestamp - p.lastModelTime
        speedup == IF 1000 + 20 * p.motionMag < 4000 THEN 1000 + 20 * p.motionMag ELSE 4000
    IN /\ elapsed >= 16
       /\ elapsed * speedup * p.modelInterval.den >= 1000 * p.modelInterval.num

C16_PassThroughChangesNothing ==
    [][(IsFrameCall /\ (main.backgroundMode = "none" \/ ~main.initialized)) =>
          /\ main'.returned = "null"
          /\ ~main'.segmented
          /\ main'.dispatched = "none"
          /\ ~main'.cropRectSet
          /\ main'.model = main.model
          /\ main'.modelRuns = main.modelRuns
          /\ main'.lastModelTime = main.lastModelTime
          /\ main'.interpFrameCount = main.interpFrameCount
          /\ main'.personCropRegion = main.personCropRegion
          /\ main'.motionMag = main.motionMag
          /\ main'.metrics = main.metrics
          /\ main'.frameCount = main.frameCount
          /\ main'.reports = main.reports
          /\ framer' = framer
          /\ pipeline' = pipeline
      ]_vars

\* a frame passed through in mode 'none' although a model run was due, on a
\* processor that has rendered frames and framed a person before
C16_Witness ==
    /\ main.returned = "null"
    /\ main.initialized
    /\ main.backgroundMode = "none"
    /\ main.frameCount > 0
    /\ main.personCropRegion # Null
    /\ framer.hasInitialFrame
    /\ pipeline.processCalls > 0
    /\ EffectiveIntervalElapsed(main, main.timestamp)

\* C23: when a fresh mask has no pixel above 0.5, getPersonBBox reports null,
\* the ROI crop region keeps its value, and the auto-framer's smoothed crop,
\* target crop and frame count are unchanged.
C23_EmptyMaskHoldsRoiAndCrop ==
    [][(/\ IsFrameCall
        /\ main'.outcome = "masks"
        /\ main'.dispatched = "process"
        /\ main'.maskPassed.person = Null) =>
          /\ getPersonBBox(main'.model, roiPadding(framer)) = Null
          /\ main'.personCropRegion = main.personCropRegion
          /\ framer'.currentCrop = framer.currentCrop
          /\ framer'.targetCrop = framer.targetCrop
          /\ framer'.frameCount = framer.frameCount
      ]_vars

\* a fresh mask without a person, on a processor that holds a ROI and whose
\* enabled auto-framer has framed a person before
C23_Witness ==
    /\ main.outcome = "masks"
    /\ main.dispatched = "process"
    /\ main.maskPassed.person = Null
    /\ main.personCropRegion # Null
    /\ framer.config.enabled
    /\ framer.hasInitialFrame

\* the candidate bbox of the frame: getPersonBBox after the segment() call
CandidateBBox == getPersonBBox(main'.model, roiPadding(framer))

\* a * 0.5 + b * 0.5
HalfBlend(a, b) ==
    [x |-> (a.x + b.x) \div 2, y |-> (a.y + b.y) \div 2,
     w |-> (a.w + b.w) \div 2, h |-> (a.h + b.h) \div 2]

\* C27: with a prior ROI and a candidate bbox, the ROI becomes the 0.5/0.5
\* blend of both in all four components when the position shift exceeds 0.03
\* or the size shift exceeds 0.015, and is retained otherwise; with no prior
\* ROI the candidate is adopted.
C27_RoiBlendsAllComponents ==
    [][(IsFrameCall /\ main'.dispatched = "process" /\ CandidateBBox # Null) =>
          LET prior == main.personCropRegion
              cand  == CandidateBBox
          IN IF prior = Null THEN main'.personCropRegion = cand
             ELSE LET posShift  == Max(Abs(cand.x - prior.x), Abs(cand.y - prior.y))
                      sizeShift == Max(Abs(cand.w - prior.w), Abs(cand.h - prior.h))
                  IN IF posShift * 100 > RoiUnit * 3 \/ sizeShift * 200 > RoiUnit * 3
                     THEN main'.personCropRegion = HalfBlend(prior, cand)
                     ELSE main'.personCropRegion = prior
      ]_vars

(***************************************************************************)
(* Properties of the lifecycle                                             *)
(***************************************************************************)

\* init() has resolved and the processor was not destroyed since
InitResolved == boot.phase = "none" /\ boot.result = "resolved" /\ main.initialized

\* the two inference paths processFrame can take
WorkerPathActive   == boot.workerClient = "ready"
InThreadPathActive == boot.workerClient = "null" /\ main.model.segmenter

\* a step in which the worker initialisation fails: the constructor throws,
\* the worker reports an error, or the 30 s timer fires
WorkerInitFails == boot'.workerFailure # "none" /\ boot.workerFailure = "none"

\* C21: when useWorker is set and the worker initialisation fails or does not
\* report ready within 30 s, init() does not reject for that reason; it
\* destroys the worker client and initialises the in-thread model, and after
\* init() resolves exactly one inference path is active.
C21_WorkerFailureFallsBack ==
    /\ [][WorkerInitFails =>
            /\ boot'.result = "pending"
            /\ boot'.workerClient = "null"
            /\ boot'.phase = "fallbackInit"]_vars
    /\ [](boot.result = "rejected" =>
            boot.rejectedAt \in {"modelInit", "safariInit", "fallbackInit"})
    /\ [](InitResolved => (WorkerPathActive # InThreadPathActive))
    /\ []((InitResolved /\ boot.workerFailure # "none") => InThreadPathActive)

\* init() resolved after the worker did not report ready in time
C21_Witness ==
    /\ InitResolved
    /\ boot.useWorker
    /\ boot.workerFailure = "timeout"
    /\ InThreadPathActive
    /\ ~WorkerPathActive

\* C22: after an adapter reset (the processor is initialised again), the
\* motion vector the orchestrator uses is zero: the first detection only seeds
\* the centroid, the velocities stay 0 until the second detection, and no
\* shift is applied on the interpolated frames in between.
C22_NoMotionAfterReset ==
    /\ []((InitResolved /\ main.model.firstCentroid) => main.motionMag = 0)
    /\ [][(IsFrameCall /\ InitResolved /\ main.model.firstCentroid) =>
            /\ main'.model.velocity = 0
            /\ main'.motionMag = 0
            /\ main'.dispatched = "processInterpolated" =>
                  getAccumulatedShift(main') = [dx |-> 0, dy |-> 0]]_vars

\* a step in which the controller of the processor applies a new tier
ControllerApplies ==
    /\ boot.adaptive
    /\ boot'.adaptive
    /\ adaptive'.currentTier # adaptive.currentTier

\* the Morphology column of the tier table (README 330-336): yes for ultra,
\* high and medium, no for low and minimal
TierMorphology(tier) == tier <= 2

\* C29: after the adaptive controller applies tier T, the pipeline's
\* morphology option equals T's morphology flag: on at ultra, high and medium,
\* off at low and minimal.
C29_MorphologyFollowsTier ==
    [][(ControllerApplies /\ boot'.hasPipeline) =>
          pipeline'.opts.morphology = TierMorphology(adaptive'.currentTier)]_vars

\* a step in which an init() call resolves
InitResolves == boot.result = "pending" /\ boot'.result = "resolved"

\* the pipeline options and the model interval are those of the level
MatchesLevel(pl, m, level) ==
    /\ pl.opts.appearRate = level.appearRate
    /\ pl.opts.disappearRate = level.disappearRate
    /\ pl.opts.featherRadius = level.featherRadius
    /\ pl.opts.rangeSigma = level.rangeSigma
    /\ pl.opts.blurRadius = level.blurRadius
    /\ pl.opts.lightWrap = level.lightWrap
    /\ m.modelInterval = [num |-> 1000, den |-> level.modelFps]

\* C30: after every init() of a processor with the adaptive controller,
\* including a re-init when the controller is already at tier 0, the new
\* pipeline's appear rate, disappear rate, feather radius, range sigma, blur
\* radius and light-wrap flag equal those of the controller's current tier,
\* and the base model interval is 1000 / that tier's model rate.
C30_InitLeavesPipelineAtTier ==
    [][(InitResolves /\ boot'.adaptive) =>
          MatchesLevel(pipeline', main', getCurrentLevel(adaptive'))]_vars

(***************************************************************************)
(* Properties of both paths                                                *)
(***************************************************************************)

\* what the frame of this step did to interpFrameCount on the in-thread path:
\* a fresh-mask frame calls process, an interpolated frame processInterpolated
\* with the shift accumulated over the count it has just incremented
InThreadCountStep ==
    IF IsFrameCall /\ main'.dispatched = "process"
    THEN main'.interpFrameCount = 0
    ELSE IF IsFrameCall /\ main'.dispatched = "processInterpolated"
    THEN /\ main'.interpFrameCount = main.interpFrameCount + 1
         /\ pipeline'.call = "processInterpolated"
         /\ LET shift == getAccumulatedShift([main EXCEPT !.interpFrameCount = @ + 1])
            IN hasShift(shift) => pipeline'.shiftFBO.by = shift
    ELSE main'.interpFrameCount = main.interpFrameCount

\* the same on the worker path
WorkerCountStep ==
    IF IsProcessFrameStep /\ processor'.rendered = "process"
    THEN processor'.interpFrameCount = 0
    ELSE IF IsProcessFrameStep /\ processor'.rendered = "interpolated"
    THEN processor'.interpFrameCount = processor.interpFrameCount + 1
    ELSE processor'.interpFrameCount = processor.interpFrameCount

\* C26: at every processInterpolated call of processFrame, interpFrameCount is
\* the number of consecutive interpolated frames, the current one included,
\* since the last fresh-mask frame, and it is 0 right after every fresh-mask
\* frame: the count starts at 0, a fresh-mask frame sets it to 0, every
\* interpolated frame adds one before the call, nothing else changes it; on
\* the worker path, the in-thread path, and the in-thread frames where the
\* model ran but returned no mask.
C26_InterpCountIsRunLength ==
    /\ (main.interpFrameCount = 0 /\ processor.interpFrameCount = 0)
    /\ [][InThreadCountStep /\ WorkerCountStep]_vars

\* the second interpolated frame in a row on the in-thread path, the model
\* having run without returning a mask
C26_Witness ==
    /\ boot.workerClient = "null"
    /\ main.segmented
    /\ main.outcome = "threw"
    /\ main.dispatched = "processInterpolated"
    /\ main.interpFrameCount = 2

\* interpolated frames in a row on the worker path
C26_WorkerRun ==
    /\ boot.workerClient = "ready"
    /\ processor.rendered = "interpolated"
    /\ processor.interpFrameCount = 2

(***************************************************************************)
(* Properties of the two adapters                                          *)
(***************************************************************************)

\* the last call was the first one after init in which the producer returned
\* masks
FirstFreshMask == adapters.out = "masks" /\ adapters.masks = 1

\* C28: given the same producer outputs and crops, the worker path and the
\* in-thread adapter hand the pipeline the same full-frame mask, the same bbox
\* and the same motion-map presence; on the first fresh mask after init the
\* motion map is missing and the has-motion-map flag is 0 on both paths.
C28_WorkerMatchesInThread ==
    /\ [](adapters.out = "masks" => adapters.viaWorker = adapters.inThread)
    /\ [](FirstFreshMask =>
            /\ ~adapters.inThread.hasMotionMap
            /\ ~adapters.viaWorker.hasMotionMap)

(***************************************************************************)
(* Properties of the mask upload                                           *)
(***************************************************************************)

\* pixel (row r, column c) of a mask w pixels wide
At(mask, w, r, c) == mask[r * w + c]

Processing(t) ==
    [ boot |-> t.boot, main |-> t.main, pipeline |-> t.pipeline,
      adaptive |-> t.adaptive, framer |-> t.framer ]

C40_CountersBelowThresholds ==
    /\ ~(adaptive.consecutiveGoodWindows > 0 /\ adaptive.consecutiveBadWindows > 0)
    /\ adaptive.consecutiveGoodWindows < UpgradeThreshold
    /\ adaptive.consecutiveBadWindows < DowngradeThreshold
    /\ adaptive.criticalFrameCount < CriticalRun

\* a window evaluation has just counted the last good window needed, upgraded
\* and cleared the counter
C40_Witness ==
    /\ adaptive.path = "good"
    /\ adaptive.called = "upgrade"
    /\ adaptive.currentTier < adaptive.tier0
    /\ adaptive.consecutiveGoodWindows = 0

\* the branches of evaluateWindow
EvaluatedPaths == {"locked", "cooldown", "bad", "good", "stable"}

\* C33: every reported frame whose running frame count is a multiple of
\* windowSize has the window evaluated, over windowSize frame times, also when
\* it is the third consecutive critical frame.
C33_EveryBoundaryEvaluated ==
    [][(/\ adaptive'.totalFrames = adaptive.totalFrames + 1
        /\ adaptive'.totalFrames % WindowSize = 0)
       => (/\ adaptive'.path \in EvaluatedPaths
           /\ getAverageFrameTime(adaptive').count = WindowSize)]_vars

(***************************************************************************)
(* Properties of the accumulated shift                                     *)
(***************************************************************************)

\* x clamped to -limit .. limit
Clamped(x, limit) == IF x > limit THEN limit ELSE IF x < -limit THEN -limit ELSE x

\* the motion vector lies inside the dead zone
InDeadZone(v) ==
    /\ weightedVx(v.maskVx) < 10 * DeadZone /\ weightedVx(v.maskVx) > -10 * DeadZone
    /\ v.maskVy < DeadZone /\ v.maskVy > -DeadZone

\* C35: the shift passed to processInterpolated has |dx| <= 0.12 and
\* |dy| <= 0.12 for any velocities and any number of interpolated frames; it
\* is (0,0) when |0.6 v0 + 0.3 v1 + 0.1 v2| < 0.003 and |vy| < 0.003, else
\* (weighted vx * t, vy * t) clamped per axis, t the interpolation counter.
C35_ShiftClampedWithDeadZone ==
    interp.interpFrameCount > 0 =>
        /\ interp.shift.dx \in (-10 * MaxShift)..(10 * MaxShift)
        /\ interp.shift.dy \in (-MaxShift)..MaxShift
        /\ InDeadZone(interp) => interp.shift = [dx |-> 0, dy |-> 0]
        /\ ~InDeadZone(interp) =>
              /\ interp.shift.dx = Clamped(weightedVx(interp.maskVx) * interp.interpFrameCount,
                                           10 * MaxShift)
              /\ interp.shift.dy = Clamped(interp.maskVy * interp.interpFrameCount, MaxShift)

\* the fourth interpolated frame of a move to the left and slowly down: dx is
\* clamped at -0.12, dy is not clamped
C35_Witness ==
    /\ interp.interpFrameCount = 4
    /\ interp.maskVx = <<-500, -30, 0>>
    /\ interp.maskVy = 29
    /\ interp.shift = [dx |-> -10 * MaxShift, dy |-> 116]

(***************************************************************************)
(* Properties of the crop smoothing                                        *)
(***************************************************************************)
JoinFrames == 30              \* detections after which a non-continuous framer stops

\* the step is a detection: updateFromMask went past the bounding-box test
Detection == framer'.frameCount = framer.frameCount + 1

\* a non-continuous framer that has processed more than 30 detections
JoinOver == ~framer.config.continuous /\ framer.frameCount > JoinFrames

C39_PreviousMaskAsProduced ==
    buffers.hasPreviousMask =>
        /\ buffers.previousMask = buffers.producedBefore
        /\ buffers.motionMap =
              [i \in BufferPixels |-> Abs(buffers.produced[i] - buffers.producedBefore[i])]

(***************************************************************************)
(* Properties of the frame's report to the controller                      *)
(***************************************************************************)

\* a step that is one processFrame call of the lifecycle
IsLifecycleFrame == main'.frameCalls = main.frameCalls + 1

\* C31: for a processor constructed with adaptive enabled, every processFrame
\* call that returns a surface reports its total frame time to the adaptive
\* controller exactly once, after any sequence of init, re-init and
\* destroy-then-init calls.
C31_EverySurfaceReported ==
    [][ (IsLifecycleFrame /\ boot.optsAdaptive /\ main'.returned # "null") =>
            /\ adaptive'.totalFrames = adaptive.totalFrames + 1
            /\ adaptive'.frameTimes[adaptive.windowIndex + 1] = main'.metrics.totalFrameMs
      ]_vars

\* the draw calls on record that write to a framebuffer
DrawnInto(fbo) == PassesInto(pipeline'.drawn, fbo)

\* C32: tier changes triggered by reportFrame take effect only at the next
\* processFrame: the scheduling decision of a frame uses the model interval
\* the frame started with, its pipeline dispatch draws with the options the
\* frame started with (smoothing rates, morphology, light wrap, background),
\* and when the frame's report changes the tier (the processor holds a
\* controller and the call applied a level) the appliers' updateOptions is
\* the pipeline's last call, after the dispatch.
C32_TierChangeAfterDispatch ==
    [][ (IsLifecycleFrame /\ main'.returned # "null") =>
            /\ main'.segmented = shouldRunModel(main, main'.timestamp)
            /\ pipeline'.calls = pipeline.calls + 1
            /\ (DrawnInto("morphologyFBO1") # {}) =
                  (pipeline.opts.morphology /\ main'.dispatched = "process")
            /\ (PassesOf(pipeline'.drawn, "lightWrap") # {}) = pipeline.opts.lightWrap
            /\ (PassesOf(pipeline'.drawn, "blur") # {}) = (pipeline.opts.backgroundMode = "blur")
            /\ \A k \in DOMAIN pipeline'.drawn :
                  LET pass == pipeline'.drawn[k]
                  IN /\ pass.prog = "temporal" =>
                           pass.uniforms =
                              IF pipeline.isFirstFrame THEN <<100, 100>>
                              ELSE <<pipeline.opts.appearRate, pipeline.opts.disappearRate>>
                     /\ pass.prog = "composite" =>
                           pass.uniforms = <<pipeline.opts.backgroundMode>>
            /\ IF boot.adaptive /\ adaptive'.applied # << >>
               THEN /\ pipeline'.call = "updateOptions"
                    /\ main'.modelInterval = [num |-> 1000, den |-> getCurrentLevel(adaptive').modelFps]
               ELSE /\ pipeline'.opts = pipeline.opts
                    /\ main'.modelInterval = main.modelInterval
      ]_vars

\* a frame whose report changed the tier: morphology is off in the options
\* now, and the frame's dispatch still ran the closing passes
C32_Witness ==
    /\ main.returned = "canvas"
    /\ adaptive.applied # << >>
    /\ pipeline.call = "updateOptions"
    /\ ~pipeline.opts.morphology
    /\ PassesInto(pipeline.drawn, "morphologyFBO1") # {}

(***************************************************************************)
(* Properties of the background setters                                    *)
(***************************************************************************)

\* C38: whenever the processor is initialised and its backgroundMode is not
\* 'none', the pipeline's backgroundMode equals the processor's
\* backgroundMode, after any sequence of setBackgroundMode,
\* setBackgroundColor, setBackgroundImage and init (re-init) calls.
C38_PipelineModeIsProcessorMode ==
    (main.initialized /\ boot.hasPipeline /\ main.backgroundMode # "none") =>
        pipeline.opts.backgroundMode = main.backgroundMode

(***************************************************************************)
(* Properties of the diagnostic events                                     *)
(***************************************************************************)

\* the init events among the emitted ones
InitEvents(emitted) == {i \in DOMAIN emitted : emitted[i].type = "init"}

AccumulatorsZero(d) ==
    /\ d.diagBBoxAtEdgeCount = 0 /\ d.diagMaskEmptyCount = 0
    /\ d.diagMaskCoverageAccum = 0 /\ d.diagMaskCoverageCount = 0
    /\ d.diagModelMsAccum = 0 /\ d.diagModelFrameCount = 0
    /\ d.diagPipelineMsAccum = 0 /\ d.diagTotalMsAccum = 0
    /\ d.diagTotalMsWindow = << >> /\ d.diagFrameCount = 0
    /\ d.diagLogs = << >>

\* a step that emits a summary event
EmitsSummary ==
    /\ Len(diagnosed'.diag.emitted) > Len(diagnosed.diag.emitted)
    /\ diagnosed'.diag.emitted[Len(diagnosed'.diag.emitted)].type = "summary"

\* C36: over the lifetime of a processor with diagnostics enabled the init
\* event is emitted exactly once, whatever init (re-init) and
\* setDiagnosticsLevel calls occur; a summary event is emitted at most once
\* per diagnostics interval and only for intervals in which at least one
\* frame was processed, and the accumulators are zero after each emission.
C36_InitOnceSummaryPerInterval ==
    [][ /\ Cardinality(InitEvents(diagnosed'.diag.emitted)) = 1
        /\ Len(diagnosed'.diag.emitted) <= Len(diagnosed.diag.emitted) + 1
        /\ EmitsSummary =>
              /\ diagnosed.diag.diagTimer
              /\ diagnosed.diag.diagFrameCount >= 1
              /\ AccumulatorsZero(diagnosed'.diag)
      ]_vars

(***************************************************************************)
(* Properties of a failed upload                                           *)
(***************************************************************************)

\* a step that is one processFrame call whose camera upload failed
UploadFails ==
    /\ main'.frameCalls = main.frameCalls + 1
    /\ main'.upload \in {"throws", "glError"}

\* the skipped frames counted since the counters were last moved to the
\* metrics, were they moved at this timestamp
CountedSoFar(p, timestamp) ==
    IF timestamp - p.fpsTimestamp >= 1000 THEN 0 ELSE p.skippedFrames

\* C37: a per-frame upload failure inside processFrame is absorbed:
\* processFrame does not throw, the frame is dropped with no surface
\* returned, the count of dropped frames is incremented, and the processor
\* stays usable for the next frame.
C37_UploadFailureAbsorbed ==
    [][ UploadFails =>
            /\ main'.returned = "null"
            /\ main'.skippedFrames = CountedSoFar(main, main'.timestamp) + 1
            /\ main'.initialized
            /\ pipeline'.allocated = pipeline.allocated
      ]_vars

====
